---- MODULE Spec2Model ----
(***************************************************************************)
(* Term / TermSubject lifecycle engine of student_workload_backend.        *)
(*                                                                         *)
(* The relational store is modelled as sets of row versions.  A version    *)
(* carries xmin (0 = committed, p = inserted by the open transaction of    *)
(* request p) and xmax (0 = live, p = deleted or superseded by the open    *)
(* transaction of request p), which is how PostgreSQL READ COMMITTED       *)
(* behaves for the statements the services issue.                          *)
(***************************************************************************)
EXTENDS Integers, Sequences, FiniteSets, TLC

VARIABLES terms,      \* table terms
          tsubs,      \* table term_subjects
          profs,      \* table term_subjects_professor
          lects,      \* table term_subject_lecturers
          seqs,       \* id sequences of the tables
          pc,         \* per request: position in its handler
          loc,        \* per request: the handler's local variables
          inTx,       \* per request: client.query('BEGIN') issued, not yet ended
          done,       \* the most recent completed request of a term workflow
          last,       \* the most recent completed call of a one-step handler
          works       \* table work_details

vars == <<terms, tsubs, profs, lects, seqs, pc, loc, inTx, done, last, works>>

----------------------------------------------------------------------------
(* Bounds and enumerated inputs *)

Procs == {1, 2}                 \* concurrent requests
SubjectIds == {1, 2}            \* rows of the reference table subjects
BadSubject == 9                 \* a subject id with no row in subjects
UserIds == {1, 2}               \* active rows of the reference table users
TsIds == {1, 2, 3}              \* term subject ids a request may name
Years == {2568}
Sectors == {1, 2}
MaxTerms == 2                   \* cap on the terms id sequence
MaxAssignments == 3             \* cap on the term_subject_lecturers id sequence
MaxWorks == 2                   \* cap on the rows of work_details
MaxDay == 4                     \* dates of a term request are days 1..MaxDay

NoTx == 0
BadDate == 0                    \* a date string that is not YYYY-MM-DD

PENDING == "pending"
SUBMITTED == "submitted"
APPROVED == "approved"
WorkloadStates == {PENDING, SUBMITTED, APPROVED}

----------------------------------------------------------------------------
(* Store primitives *)

\* Rows a statement of request p sees under READ COMMITTED: committed rows
\* and p's own uncommitted inserts, minus p's own uncommitted deletes.
Visible(p, rows) ==
    {r \in rows : (r.xmin = 0 \/ r.xmin = p) /\ (r.xmax = 0 \/ r.xmax # p)}

\* Rows that are committed and not being deleted by anyone.
Settled(rows) == {r \in rows : r.xmin = 0 /\ r.xmax = 0}

findTermSubjectById(p, termSubjectId) ==
    {r \in Visible(p, tsubs) : r.id = termSubjectId}

findProfessorsByTermSubject(p, termSubjectId) ==
    {r \in Visible(p, profs) : r.ts = termSubjectId}

\* UPDATE term_subjects SET workload_approved = status WHERE id = termSubjectId
updateWorkloadStatus(rows, termSubjectId, status) ==
    {IF r.id = termSubjectId THEN [r EXCEPT !.wa = status] ELSE r : r \in rows}

----------------------------------------------------------------------------
(* Workload approval: the outcome each service computes from what it reads *)

\* Variant: the 'submitted' test is missing.
submitOutcome_NoSubmittedCheck(termSubjectId, userId) ==
    LET found == findTermSubjectById(NoTx, termSubjectId)
        ts == CHOOSE r \in found : TRUE
        isAssigned == \E a \in findProfessorsByTermSubject(NoTx, termSubjectId) :
                          a.user = userId
    IN  IF found = {} THEN "TERM_SUBJECT_NOT_FOUND"
        ELSE IF ~isAssigned THEN "NOT_ASSIGNED"
        ELSE IF ts.wa = APPROVED THEN "ALREADY_APPROVED"
        ELSE "OK"

\* Variant: the state tests run before the assignment test.
submitOutcome_StateFirst(termSubjectId, userId) ==
    LET found == findTermSubjectById(NoTx, termSubjectId)
        ts == CHOOSE r \in found : TRUE
        isAssigned == \E a \in findProfessorsByTermSubject(NoTx, termSubjectId) :
                          a.user = userId
    IN  IF found = {} THEN "TERM_SUBJECT_NOT_FOUND"
        ELSE IF ts.wa = SUBMITTED THEN "ALREADY_SUBMITTED"
        ELSE IF ts.wa = APPROVED THEN "ALREADY_APPROVED"
        ELSE IF ~isAssigned THEN "NOT_ASSIGNED"
        ELSE "OK"

submitOutcome(termSubjectId, userId) ==
    LET found == findTermSubjectById(NoTx, termSubjectId)
        ts == CHOOSE r \in found : TRUE
        isAssigned == \E a \in findProfessorsByTermSubject(NoTx, termSubjectId) :
                          a.user = userId
    IN  IF found = {} THEN "TERM_SUBJECT_NOT_FOUND"
        ELSE IF ~isAssigned THEN "NOT_ASSIGNED"
        ELSE IF ts.wa = SUBMITTED THEN "ALREADY_SUBMITTED"
        ELSE IF ts.wa = APPROVED THEN "ALREADY_APPROVED"
        ELSE "OK"

\* Variant: the 'pending' test is missing.
approveOutcome_NoPendingCheck(termSubjectId) ==
    LET found == findTermSubjectById(NoTx, termSubjectId)
        ts == CHOOSE r \in found : TRUE
    IN  IF found = {} THEN "TERM_SUBJECT_NOT_FOUND"
        ELSE IF ts.wa = APPROVED THEN "ALREADY_APPROVED"
        ELSE "OK"

approveOutcome(termSubjectId) ==
    LET found == findTermSubjectById(NoTx, termSubjectId)
        ts == CHOOSE r \in found : TRUE
    IN  IF found = {} THEN "TERM_SUBJECT_NOT_FOUND"
        ELSE IF ts.wa = PENDING THEN "NOT_SUBMITTED"
        ELSE IF ts.wa = APPROVED THEN "ALREADY_APPROVED"
        ELSE "OK"

\* Variant: the 'approved' test is missing.
rejectOutcome_NoApprovedCheck(termSubjectId) ==
    LET found == findTermSubjectById(NoTx, termSubjectId)
        ts == CHOOSE r \in found : TRUE
    IN  IF found = {} THEN "TERM_SUBJECT_NOT_FOUND"
        ELSE IF ts.wa = PENDING THEN "NOT_SUBMITTED"
        ELSE "OK"

\* Variant: the 'pending' test is missing.
rejectOutcome_NoPendingCheck(termSubjectId) ==
    LET found == findTermSubjectById(NoTx, termSubjectId)
        ts == CHOOSE r \in found : TRUE
    IN  IF found = {} THEN "TERM_SUBJECT_NOT_FOUND"
        ELSE IF ts.wa = APPROVED THEN "ALREADY_APPROVED"
        ELSE "OK"

rejectOutcome(termSubjectId) ==
    LET found == findTermSubjectById(NoTx, termSubjectId)
        ts == CHOOSE r \in found : TRUE
    IN  IF found = {} THEN "TERM_SUBJECT_NOT_FOUND"
        ELSE IF ts.wa = PENDING THEN "NOT_SUBMITTED"
        ELSE IF ts.wa = APPROVED THEN "ALREADY_APPROVED"
        ELSE "OK"

\* The state of a term subject as the caller found it ("none" if absent).
StateOf(termSubjectId) ==
    LET found == findTermSubjectById(NoTx, termSubjectId)
    IN  IF found = {} THEN "none" ELSE (CHOOSE r \in found : TRUE).wa

IsAssigned(termSubjectId, userId) ==
    \E a \in findProfessorsByTermSubject(NoTx, termSubjectId) : a.user = userId

\* Record of a completed call: what was asked, what the caller found (pre,
\* assigned), the outcome, and the call that completed just before it.
Call(op, termSubjectId, userId, code) ==
    [op |-> op, ts |-> termSubjectId, user |-> userId, code |-> code,
     pre |-> StateOf(termSubjectId),
     assigned |-> IsAssigned(termSubjectId, userId),
     prevOp |-> last.op, prevTs |-> last.ts, prevCode |-> last.code]

NoCall == [op |-> "none", ts |-> 0, user |-> 0, code |-> "none",
           pre |-> "none", assigned |-> FALSE,
           prevOp |-> "none", prevTs |-> 0, prevCode |-> "none"]

submitWorkload(termSubjectId, userId) ==
    LET code == submitOutcome(termSubjectId, userId)
    IN  /\ tsubs' = IF code = "OK"
                    THEN updateWorkloadStatus(tsubs, termSubjectId, SUBMITTED)
                    ELSE tsubs
        /\ last' = Call("submit", termSubjectId, userId, code)
        /\ UNCHANGED <<terms, profs, lects, seqs, pc, loc, inTx, done, works>>

approveWorkload(termSubjectId, userId) ==
    LET code == approveOutcome(termSubjectId)
    IN  /\ tsubs' = IF code = "OK"
                    THEN updateWorkloadStatus(tsubs, termSubjectId, APPROVED)
                    ELSE tsubs
        /\ last' = Call("approve", termSubjectId, userId, code)
        /\ UNCHANGED <<terms, profs, lects, seqs, pc, loc, inTx, done, works>>

rejectWorkload(termSubjectId, userId) ==
    LET code == rejectOutcome(termSubjectId)
    IN  /\ tsubs' = IF code = "OK"
                    THEN updateWorkloadStatus(tsubs, termSubjectId, PENDING)
                    ELSE tsubs
        /\ last' = Call("reject", termSubjectId, userId, code)
        /\ UNCHANGED <<terms, profs, lects, seqs, pc, loc, inTx, done, works>>

\* Variant: the duplicate check is missing.
assignProfessorToSubject_NoDuplicateCheck(termSubjectId, professorId) ==
    LET code == IF findTermSubjectById(NoTx, termSubjectId) = {}
                THEN "TERM_SUBJECT_NOT_FOUND"
                ELSE IF professorId \notin UserIds THEN "PROFESSOR_NOT_FOUND"
                ELSE "OK"
    IN  /\ profs' = IF code = "OK"
                    THEN profs \cup {[ts |-> termSubjectId, user |-> professorId,
                                      xmin |-> 0, xmax |-> 0]}
                    ELSE profs
        /\ last' = Call("assign", termSubjectId, professorId, code)
        /\ UNCHANGED <<terms, tsubs, lects, seqs, pc, loc, inTx, done, works>>

\* assignProfessorToSubject: existence check, duplicate check, then INSERT.
assignProfessorToSubject(termSubjectId, professorId) ==
    LET code == IF findTermSubjectById(NoTx, termSubjectId) = {}
                THEN "TERM_SUBJECT_NOT_FOUND"
                ELSE IF professorId \notin UserIds THEN "PROFESSOR_NOT_FOUND"
                ELSE IF IsAssigned(termSubjectId, professorId) THEN "ALREADY_ASSIGNED"
                ELSE "OK"
    IN  /\ profs' = IF code = "OK"
                    THEN profs \cup {[ts |-> termSubjectId, user |-> professorId,
                                      xmin |-> 0, xmax |-> 0]}
                    ELSE profs
        /\ last' = Call("assign", termSubjectId, professorId, code)
        /\ UNCHANGED <<terms, tsubs, lects, seqs, pc, loc, inTx, done, works>>

\* removeProfessor: existence check, then DELETE of the (term subject, user) row.
removeProfessor(termSubjectId, userId) ==
    LET code == IF findTermSubjectById(NoTx, termSubjectId) = {}
                THEN "TERM_SUBJECT_NOT_FOUND" ELSE "OK"
    IN  /\ profs' = IF code = "OK"
                    THEN {a \in profs : ~(a.ts = termSubjectId /\ a.user = userId)}
                    ELSE profs
        /\ last' = Call("remove", termSubjectId, userId, code)
        /\ UNCHANGED <<terms, tsubs, lects, seqs, pc, loc, inTx, done, works>>

----------------------------------------------------------------------------
(* Initial states *)

Idle == [p \in Procs |-> "idle"]

\* hasSubs: subject_ids was present in the request; upd: the UPDATE of
\* updateTerm returned a row; snap: the rows a blocked DELETE had selected;
\* deleted: the ids deleteTermSubjectsByTermId returned.
Locals(op, termId, year, sector, hasSubs, subs) ==
    [op |-> op, termId |-> termId, year |-> year, sector |-> sector,
     hasSubs |-> hasSubs, subs |-> subs, upd |-> TRUE, snap |-> {},
     deleted |-> {}]

NoLocals == [p \in Procs |-> Locals("none", 0, 0, 0, FALSE, <<>>)]

\* Record of a completed term request: the handler, the term it named or
\* created, the key it carried, what the controller answered and the round
\* trip ("at") that ended it, with the term subject ids it had deleted.
Request(op, termId, year, sector, deleted, code, at) ==
    [op |-> op, termId |-> termId, year |-> year, sector |-> sector,
     deleted |-> deleted, code |-> code, at |-> at]

NoRequest == Request("none", 0, 0, 0, {}, "none", "none")

\* The empty store after the migrations have run.
Init ==
    /\ terms = {} /\ tsubs = {} /\ profs = {} /\ lects = {}
    /\ seqs = [terms |-> 0, tsubs |-> 0, lects |-> 0]
    /\ pc = Idle /\ loc = NoLocals
    /\ inTx = [p \in Procs |-> FALSE]
    /\ done = NoRequest
    /\ last = NoCall
    /\ works = {}

\* The store after createTerm of 2568/1 with subject_ids [1, 2] has committed.
InitWorkload ==
    /\ terms = {[id |-> 1, year |-> 2568, sector |-> 1, xmin |-> 0, xmax |-> 0]}
    /\ tsubs = {[id |-> s, term |-> 1, subject |-> s, wa |-> PENDING,
                 xmin |-> 0, xmax |-> 0] : s \in SubjectIds}
    /\ profs = {} /\ lects = {}
    /\ seqs = [terms |-> 1, tsubs |-> 2, lects |-> 0]
    /\ pc = Idle /\ loc = NoLocals
    /\ inTx = [p \in Procs |-> FALSE]
    /\ done = NoRequest
    /\ last = NoCall
    /\ works = {}

NextWorkload ==
    \/ \E t \in TsIds, u \in UserIds : submitWorkload(t, u)
    \/ \E t \in TsIds, u \in UserIds : approveWorkload(t, u)
    \/ \E t \in TsIds, u \in UserIds : rejectWorkload(t, u)
    \/ \E t \in TsIds, u \in UserIds : assignProfessorToSubject(t, u)
    \/ \E t \in TsIds, u \in UserIds : removeProfessor(t, u)

SpecWorkload == InitWorkload /\ [][NextWorkload]_vars

----------------------------------------------------------------------------
(* Workload approval state machine: properties under SpecWorkload *)

WorkloadOps == {"submit", "approve", "reject"}

\* C1: across submit, approve and reject calls the workload approval state of
\* a term subject changes only by pending -> submitted (a successful submit),
\* submitted -> approved (a successful approve) or submitted -> pending (a
\* successful reject); every other call leaves every state as it was.
C1_OnlyLegalSteps ==
    [][\A t \in TsIds :
         StateOf(t)' # StateOf(t) =>
            /\ last'.ts = t /\ last'.code = "OK"
            /\ \/ StateOf(t) = PENDING /\ StateOf(t)' = SUBMITTED /\ last'.op = "submit"
               \/ StateOf(t) = SUBMITTED /\ StateOf(t)' = APPROVED /\ last'.op = "approve"
               \/ StateOf(t) = SUBMITTED /\ StateOf(t)' = PENDING /\ last'.op = "reject"]_vars

\* A successful reject took a submitted workload back to pending.
C1_Witness ==
    /\ last.op = "reject" /\ last.code = "OK" /\ last.pre = SUBMITTED
    /\ StateOf(last.ts) = PENDING
    /\ \E t \in TsIds : StateOf(t) = APPROVED

\* C2: once a term subject is approved, every submit, approve and reject
\* called on it fails, and it stays approved.
C2_ApprovedIsTerminal ==
    [][\A t \in TsIds :
         StateOf(t) = APPROVED =>
            /\ StateOf(t)' = APPROVED
            /\ (last'.ts = t /\ last'.op \in WorkloadOps) => last'.code # "OK"]_vars

\* A reject was attempted on an approved workload.
C2_Witness ==
    /\ last.op = "reject" /\ last.pre = APPROVED
    /\ last.code = "ALREADY_APPROVED" /\ StateOf(last.ts) = APPROVED

\* C3: submit by an assigned instructor on a submitted workload fails with
\* ALREADY_SUBMITTED, on an approved one with ALREADY_APPROVED, and leaves the
\* state unchanged; a submit that directly follows a successful submit on the
\* same term subject fails with ALREADY_SUBMITTED.
C3_ResubmitFails ==
    (last.op = "submit" /\ last.assigned) =>
        /\ last.pre = SUBMITTED =>
              last.code = "ALREADY_SUBMITTED" /\ StateOf(last.ts) = SUBMITTED
        /\ last.pre = APPROVED =>
              last.code = "ALREADY_APPROVED" /\ StateOf(last.ts) = APPROVED
        /\ (last.prevOp = "submit" /\ last.prevTs = last.ts /\ last.prevCode = "OK") =>
              last.code = "ALREADY_SUBMITTED"

\* A second submit directly after a successful one, by an assigned instructor.
C3_Witness ==
    /\ last.op = "submit" /\ last.assigned
    /\ last.prevOp = "submit" /\ last.prevTs = last.ts /\ last.prevCode = "OK"
    /\ last.code = "ALREADY_SUBMITTED"

\* C4: approve and reject on a pending term subject fail with NOT_SUBMITTED
\* and leave it pending.
C4_PendingNotSubmitted ==
    (last.op \in {"approve", "reject"} /\ last.pre = PENDING) =>
        last.code = "NOT_SUBMITTED" /\ StateOf(last.ts) = PENDING

\* An approve on a workload that had been submitted and was just rejected.
C4_Witness ==
    /\ last.op = "approve" /\ last.pre = PENDING /\ last.code = "NOT_SUBMITTED"
    /\ last.prevOp = "reject" /\ last.prevTs = last.ts /\ last.prevCode = "OK"

----------------------------------------------------------------------------
(* Transactions and constraints of the store *)

\* The owner written into row versions by a statement of request p: p itself
\* after BEGIN, nobody (the statement commits on its own) otherwise.
Owner(p) == IF inTx[p] THEN p ELSE NoTx

LockedByOther(p, r) == r.xmax # 0 /\ r.xmax # p

\* COMMIT of request p on one table.
CommitRows(p, rows) ==
    {IF r.xmin = p THEN [r EXCEPT !.xmin = 0] ELSE r : r \in {x \in rows : x.xmax # p}}

\* ROLLBACK of request p on one table.
RollbackRows(p, rows) ==
    {IF r.xmax = p THEN [r EXCEPT !.xmax = 0] ELSE r : r \in {x \in rows : x.xmin # p}}

\* DELETE of the target versions by owner o.
DeleteRows(o, rows, targets) ==
    IF o = NoTx THEN rows \ targets
    ELSE (rows \ targets) \cup {[r EXCEPT !.xmax = o] : r \in targets}

\* Variant: terms has no unique index on the key.
TermKeyTaken_NoIndex(p, year, sector) == FALSE

\* Unique index on terms (academic_year, academic_sector): a live version
\* with the key that the inserting request can see makes the insert fail ...
TermKeyTaken(p, year, sector) ==
    \E r \in terms : /\ r.year = year /\ r.sector = sector
                     /\ (r.xmin = 0 \/ r.xmin = p) /\ r.xmax = 0

\* ... and a version whose fate another open transaction still decides makes
\* the insert wait for that transaction.
TermKeyPending(p, year, sector) ==
    \E r \in terms : /\ r.year = year /\ r.sector = sector
                     /\ \/ (r.xmin # 0 /\ r.xmin # p /\ r.xmax = 0)
                        \/ (r.xmin = 0 /\ LockedByOther(p, r))

\* Unique index on term_subjects (term_id, subject_id), same two cases.
TermSubjectTaken(p, termId, subjectId) ==
    \E r \in tsubs : /\ r.term = termId /\ r.subject = subjectId
                     /\ (r.xmin = 0 \/ r.xmin = p) /\ r.xmax = 0

TermSubjectPending(p, termId, subjectId) ==
    \E r \in tsubs : /\ r.term = termId /\ r.subject = subjectId
                     /\ \/ (r.xmin # 0 /\ r.xmin # p /\ r.xmax = 0)
                        \/ (r.xmin = 0 /\ LockedByOther(p, r))

\* Foreign key term_subjects.subject_id -> subjects.id
SubjectExists(subjectId) == subjectId \in SubjectIds

\* Foreign key term_subjects.term_id -> terms.id, as request p sees it.
TermRowExists(p, termId) == \E r \in Visible(p, terms) : r.id = termId /\ r.xmax = 0

----------------------------------------------------------------------------
(* Term repository *)

findTermByYearAndSector(p, academicYear, academicSector) ==
    {r \in Visible(p, terms) : r.year = academicYear /\ r.sector = academicSector}

findTermById(p, termId) == {r \in Visible(p, terms) : r.id = termId}

findTermSubjectsByTermId(p, termId) == {r \in Visible(p, tsubs) : r.term = termId}

Range(f) == {f[i] : i \in DOMAIN f}

\* The n smallest ids no version of term_subjects holds (ids are opaque; no
\* request of the term workflows remembers a term subject id).
RECURSIVE FreshIds(_, _)
FreshIds(used, n) ==
    IF n = 0 THEN {}
    ELSE LET id == CHOOSE i \in 1..(Cardinality(used) + 1) : i \notin used
         IN  {id} \cup FreshIds(used \cup {id}, n - 1)

\* bulkInsertTermSubjects: the positions of subjectIds that pass the
\* NOT EXISTS filter, evaluated on the statement's snapshot.
BulkCandidates(p, termId, subjectIds) ==
    {i \in DOMAIN subjectIds :
        ~\E r \in findTermSubjectsByTermId(p, termId) : r.subject = subjectIds[i]}

\* Outcome of the INSERT ... SELECT of bulkInsertTermSubjects: "ok", the
\* SQLSTATE it raises, or "wait" while another transaction decides.
BulkOutcome(p, termId, subjectIds) ==
    LET cand == BulkCandidates(p, termId, subjectIds)
    IN  IF \E i, j \in cand : i # j /\ subjectIds[i] = subjectIds[j] THEN "23505"
        ELSE IF \E i \in cand : TermSubjectTaken(p, termId, subjectIds[i]) THEN "23505"
        ELSE IF \E i \in cand : TermSubjectPending(p, termId, subjectIds[i]) THEN "wait"
        ELSE IF \E i \in cand : ~SubjectExists(subjectIds[i]) THEN "23503"
        ELSE IF ~TermRowExists(p, termId) /\ cand # {} THEN "23503"
        ELSE "ok"

\* The rows bulkInsertTermSubjects adds when its outcome is "ok".
BulkRows(p, o, termId, subjectIds) ==
    LET subjects == {subjectIds[i] : i \in BulkCandidates(p, termId, subjectIds)}
        ids == FreshIds({r.id : r \in tsubs}, Cardinality(subjects))
        \* the k-th smallest subject gets the k-th smallest fresh id
        rank(x, S) == Cardinality({y \in S : y <= x})
    IN  {[id |-> CHOOSE i \in ids : rank(i, ids) = rank(sj, subjects),
          term |-> termId, subject |-> sj, wa |-> PENDING,
          xmin |-> o, xmax |-> 0] : sj \in subjects}

\* Variant: the controller has no case for SQLSTATE 23505.
handleError_No23505(error) ==
    CASE error = "23503" -> "FOREIGN_KEY_VIOLATION"
      [] error \in {"DUPLICATE_TERM", "TERM_NOT_FOUND"} -> error
      [] OTHER -> "INTERNAL_SERVER_ERROR"

\* Term controller: what handleError reports for a thrown error.
handleError(error) ==
    CASE error = "23505" -> "DUPLICATE_TERM"
      [] error = "23503" -> "FOREIGN_KEY_VIOLATION"
      [] error \in {"DUPLICATE_TERM", "TERM_NOT_FOUND"} -> error
      [] OTHER -> "INTERNAL_SERVER_ERROR"

----------------------------------------------------------------------------
(* createTerm, one action per store round trip *)

Released == Locals("none", 0, 0, 0, FALSE, <<>>)

\* The request of p ends: the controller answers and the client is released.
Answer(p, l, code, at) ==
    /\ done' = Request(l.op, l.termId, l.year, l.sector, l.deleted, code, at)
    /\ pc' = [pc EXCEPT ![p] = "idle"]
    /\ loc' = [loc EXCEPT ![p] = Released]
    /\ inTx' = [inTx EXCEPT ![p] = FALSE]

\* COMMIT / ROLLBACK of request p on every table, given the tables as the
\* last statement left them.  ROLLBACK outside a transaction does nothing.
CommitAll(p, t, ts, pr, le) ==
    /\ terms' = CommitRows(p, t) /\ tsubs' = CommitRows(p, ts)
    /\ profs' = CommitRows(p, pr) /\ lects' = CommitRows(p, le)

RollbackAll(p) ==
    /\ terms' = IF inTx[p] THEN RollbackRows(p, terms) ELSE terms
    /\ tsubs' = IF inTx[p] THEN RollbackRows(p, tsubs) ELSE tsubs
    /\ profs' = IF inTx[p] THEN RollbackRows(p, profs) ELSE profs
    /\ lects' = IF inTx[p] THEN RollbackRows(p, lects) ELSE lects

\* Steps 1-2: validation passed (the inputs drawn are valid terms) and the
\* duplicate pre-check runs, outside any transaction.
createTerm_check(p, year, sector, subs) ==
    /\ pc[p] = "idle"
    /\ seqs.terms + Cardinality({q \in Procs : pc[q] = "ct_insert"}) < MaxTerms
    /\ LET l == Locals("createTerm", 0, year, sector, TRUE, subs)
       IN  IF findTermByYearAndSector(p, year, sector) # {}
           THEN Answer(p, l, handleError("DUPLICATE_TERM"), "ct_check")
           ELSE /\ pc' = [pc EXCEPT ![p] = "ct_insert"]
                /\ loc' = [loc EXCEPT ![p] = l]
                /\ UNCHANGED <<inTx, done>>
    /\ UNCHANGED <<terms, tsubs, profs, lects, seqs, last, works>>

\* Variant: insertTerm runs without BEGIN, each statement commits by itself.
createTerm_insert_NoBegin(p) ==
    /\ pc[p] = "ct_insert"
    /\ ~TermKeyPending(p, loc[p].year, loc[p].sector)
    /\ IF TermKeyTaken(p, loc[p].year, loc[p].sector)
       THEN /\ Answer(p, loc[p], handleError("23505"), "ct_insert")
            /\ UNCHANGED <<terms, seqs>>
       ELSE /\ terms' = terms \cup {[id |-> seqs.terms + 1, year |-> loc[p].year,
                                     sector |-> loc[p].sector,
                                     xmin |-> NoTx, xmax |-> 0]}
            /\ seqs' = [seqs EXCEPT !.terms = @ + 1]
            /\ loc' = [loc EXCEPT ![p].termId = seqs.terms + 1]
            /\ pc' = [pc EXCEPT ![p] = "ct_subjects"]
            /\ UNCHANGED <<done, inTx>>
    /\ UNCHANGED <<tsubs, profs, lects, last, works>>

\* Step 3, BEGIN and insertTerm.  The unique index lets the INSERT wait for
\* an open transaction that holds the key, and raises 23505 when the key is
\* taken; the catch block rolls back and rethrows.
createTerm_insert(p) ==
    /\ pc[p] = "ct_insert"
    /\ ~TermKeyPending(p, loc[p].year, loc[p].sector)
    /\ IF TermKeyTaken(p, loc[p].year, loc[p].sector)
       THEN /\ Answer(p, loc[p], handleError("23505"), "ct_insert")
            /\ UNCHANGED <<terms, seqs>>
       ELSE /\ inTx' = [inTx EXCEPT ![p] = TRUE]
            /\ terms' = terms \cup {[id |-> seqs.terms + 1, year |-> loc[p].year,
                                     sector |-> loc[p].sector,
                                     xmin |-> p, xmax |-> 0]}
            /\ seqs' = [seqs EXCEPT !.terms = @ + 1]
            /\ loc' = [loc EXCEPT ![p].termId = seqs.terms + 1]
            /\ pc' = [pc EXCEPT ![p] = "ct_subjects"]
            /\ UNCHANGED done
    /\ UNCHANGED <<tsubs, profs, lects, last, works>>

\* Step 4 and COMMIT, or the catch block's ROLLBACK when the insert throws.
\* storeFails: the store rejects the statement for a reason of its own.
createTerm_subjects(p, storeFails) ==
    /\ pc[p] = "ct_subjects"
    /\ LET subs == loc[p].subs
           out == IF Len(subs) = 0 THEN "ok"
                  ELSE IF storeFails THEN "08006"
                  ELSE BulkOutcome(p, loc[p].termId, subs)
           new == IF Len(subs) = 0 THEN {}
                  ELSE BulkRows(p, Owner(p), loc[p].termId, subs)
       IN  /\ out # "wait"
           /\ (storeFails => Len(subs) > 0)
           /\ IF out = "ok"
              THEN /\ CommitAll(p, terms, tsubs \cup new, profs, lects)
                   /\ Answer(p, loc[p], "OK", "ct_subjects")
              ELSE /\ RollbackAll(p)
                   /\ Answer(p, loc[p], handleError(out), "ct_subjects")
    /\ UNCHANGED <<seqs, last, works>>

----------------------------------------------------------------------------
(* replaceTermSubjects inside the caller's transaction *)

\* ON DELETE CASCADE from term_subjects to the assignment tables.
CascadeProfs(o, deletedIds) ==
    DeleteRows(o, profs, {a \in profs : a.ts \in deletedIds /\ a.xmax = 0})

CascadeLects(o, deletedIds) ==
    DeleteRows(o, lects, {a \in lects : a.ts \in deletedIds /\ a.xmax = 0})

\* ON DELETE CASCADE from term_subjects to work_details.
CascadeWorks(o, deletedIds) ==
    DeleteRows(o, works, {w \in works : w.ts \in deletedIds /\ w.xmax = 0})

\* What the caller reports after COMMIT: updateTerm builds its answer from
\* the row its UPDATE returned and throws a TypeError when there was none.
AfterCommit(l) ==
    IF l.op = "updateTerm" /\ ~l.upd THEN handleError("TypeError") ELSE "OK"

\* The tail shared by updateTerm and updateTermSubjects once the old rows
\* are deleted: nothing to insert means COMMIT, otherwise the bulk insert
\* is the next round trip.
ReplaceAfterDelete(p, o, targets) ==
    LET ids == {r.id : r \in targets}
    IN  IF Len(loc[p].subs) = 0
        THEN /\ CommitAll(p, terms, DeleteRows(o, tsubs, targets),
                          CascadeProfs(o, ids), CascadeLects(o, ids))
             /\ works' = CommitRows(p, CascadeWorks(o, ids))
             /\ Answer(p, loc[p], AfterCommit(loc[p]), "rp_delete")
        ELSE /\ tsubs' = DeleteRows(o, tsubs, targets)
             /\ profs' = CascadeProfs(o, ids)
             /\ lects' = CascadeLects(o, ids)
             /\ works' = CascadeWorks(o, ids)
             /\ pc' = [pc EXCEPT ![p] = "rp_bulk"]
             /\ loc' = [loc EXCEPT ![p].snap = {}, ![p].deleted = ids]
             /\ UNCHANGED <<terms, done, inTx>>

\* Variant: the replace deletes nothing before it inserts.
replace_delete_NoDelete(p) ==
    /\ pc[p] = "rp_delete"
    /\ ReplaceAfterDelete(p, Owner(p), {})
    /\ UNCHANGED <<seqs, last>>

\* Variant: the replace keeps the rows whose subject is in the new list.
replace_delete_KeepListed(p) ==
    /\ pc[p] = "rp_delete"
    /\ LET targets == {r \in findTermSubjectsByTermId(p, loc[p].termId) :
                          r.subject \notin Range(loc[p].subs)}
       IN  IF \E r \in targets : LockedByOther(p, r)
           THEN /\ pc' = [pc EXCEPT ![p] = "rp_wait"]
                /\ loc' = [loc EXCEPT ![p].snap = {r.id : r \in targets}]
                /\ UNCHANGED <<terms, tsubs, profs, lects, done, inTx, works>>
           ELSE ReplaceAfterDelete(p, Owner(p), targets)
    /\ UNCHANGED <<seqs, last>>

\* deleteTermSubjectsByTermId: the DELETE selects the rows of its snapshot;
\* if another transaction holds one of them it waits for that transaction.
replace_delete(p) ==
    /\ pc[p] = "rp_delete"
    /\ LET targets == findTermSubjectsByTermId(p, loc[p].termId)
       IN  IF \E r \in targets : LockedByOther(p, r)
           THEN /\ pc' = [pc EXCEPT ![p] = "rp_wait"]
                /\ loc' = [loc EXCEPT ![p].snap = {r.id : r \in targets}]
                /\ UNCHANGED <<terms, tsubs, profs, lects, done, inTx, works>>
           ELSE ReplaceAfterDelete(p, Owner(p), targets)
    /\ UNCHANGED <<seqs, last>>

\* The blocked DELETE resumes when the other transaction has ended, and
\* deletes those of its selected rows that still exist; rows committed
\* since the statement began are not in its snapshot.
replace_resume(p) ==
    /\ pc[p] = "rp_wait"
    /\ ~\E r \in tsubs : r.id \in loc[p].snap /\ LockedByOther(p, r)
    /\ ReplaceAfterDelete(p, Owner(p),
          {r \in Visible(p, tsubs) : r.id \in loc[p].snap /\ r.xmax = 0})
    /\ UNCHANGED <<seqs, last>>

\* bulkInsertTermSubjects, then COMMIT; the catch block's ROLLBACK on error.
replace_bulk(p, storeFails) ==
    /\ pc[p] = "rp_bulk"
    /\ LET out == IF storeFails THEN "08006"
                  ELSE BulkOutcome(p, loc[p].termId, loc[p].subs)
           new == BulkRows(p, Owner(p), loc[p].termId, loc[p].subs)
       IN  /\ out # "wait"
           /\ IF out = "ok"
              THEN /\ CommitAll(p, terms, tsubs \cup new, profs, lects)
                   /\ works' = CommitRows(p, works)
                   /\ Answer(p, loc[p], AfterCommit(loc[p]), "rp_bulk")
              ELSE /\ RollbackAll(p)
                   /\ works' = IF inTx[p] THEN RollbackRows(p, works) ELSE works
                   /\ Answer(p, loc[p], handleError(out), "rp_bulk")
    /\ UNCHANGED <<seqs, last>>

----------------------------------------------------------------------------
(* updateTermSubjects (replaceAll) *)

\* Variant: the replace runs without BEGIN.
updateTermSubjects_check_NoBegin(p, termId, subjectIds) ==
    /\ pc[p] = "idle"
    /\ LET l == Locals("updateTermSubjects", termId, 0, 0, TRUE, subjectIds)
       IN  IF findTermById(p, termId) = {}
           THEN Answer(p, l, handleError("TERM_NOT_FOUND"), "rs_check")
           ELSE /\ pc' = [pc EXCEPT ![p] = "rp_delete"]
                /\ loc' = [loc EXCEPT ![p] = l]
                /\ UNCHANGED <<inTx, done>>
    /\ UNCHANGED <<terms, tsubs, profs, lects, seqs, last, works>>

\* The existence check, then BEGIN.
updateTermSubjects_check(p, termId, subjectIds) ==
    /\ pc[p] = "idle"
    /\ LET l == Locals("updateTermSubjects", termId, 0, 0, TRUE, subjectIds)
       IN  IF findTermById(p, termId) = {}
           THEN Answer(p, l, handleError("TERM_NOT_FOUND"), "rs_check")
           ELSE /\ pc' = [pc EXCEPT ![p] = "rp_delete"]
                /\ loc' = [loc EXCEPT ![p] = l]
                /\ inTx' = [inTx EXCEPT ![p] = TRUE]
                /\ UNCHANGED done
    /\ UNCHANGED <<terms, tsubs, profs, lects, seqs, last, works>>

----------------------------------------------------------------------------
(* updateTerm *)

\* Variant: the duplicate check runs on every update and does not exclude
\* the term itself.
updateTerm_check_NoSelfExclusion(p, termId, year, sector, hasSubs, subs) ==
    /\ pc[p] = "idle"
    /\ hasSubs \/ subs = <<>>
    /\ LET l == Locals("updateTerm", termId, year, sector, hasSubs, subs)
           existing == findTermById(p, termId)
           duplicate == findTermByYearAndSector(p, year, sector)
           code == IF existing = {} THEN "TERM_NOT_FOUND"
                   ELSE IF duplicate # {} THEN "DUPLICATE_TERM"
                   ELSE "OK"
       IN  IF code # "OK"
           THEN Answer(p, l, handleError(code), "ut_check")
           ELSE /\ pc' = [pc EXCEPT ![p] = "ut_update"]
                /\ loc' = [loc EXCEPT ![p] = l]
                /\ UNCHANGED <<inTx, done>>
    /\ UNCHANGED <<terms, tsubs, profs, lects, seqs, last, works>>

\* Steps 1-3: existence check, validation, and the duplicate check that
\* runs only when year or sector differ from the stored row.
updateTerm_check(p, termId, year, sector, hasSubs, subs) ==
    /\ pc[p] = "idle"
    /\ hasSubs \/ subs = <<>>
    /\ LET l == Locals("updateTerm", termId, year, sector, hasSubs, subs)
           existing == findTermById(p, termId)
           changed == \E e \in existing : year # e.year \/ sector # e.sector
           duplicate == findTermByYearAndSector(p, year, sector)
           code == IF existing = {} THEN "TERM_NOT_FOUND"
                   ELSE IF changed /\ \E d \in duplicate : d.id # termId
                        THEN "DUPLICATE_TERM"
                   ELSE "OK"
       IN  IF code # "OK"
           THEN Answer(p, l, handleError(code), "ut_check")
           ELSE /\ pc' = [pc EXCEPT ![p] = "ut_update"]
                /\ loc' = [loc EXCEPT ![p] = l]
                /\ UNCHANGED <<inTx, done>>
    /\ UNCHANGED <<terms, tsubs, profs, lects, seqs, last, works>>

\* Step 4: BEGIN and the UPDATE of the term row; without subject_ids the
\* COMMIT follows at once.  The UPDATE waits for a transaction that holds
\* the row, and the unique index treats a moved key as it treats an INSERT.
updateTerm_update(p) ==
    /\ pc[p] = "ut_update"
    /\ LET id == loc[p].termId
           y == loc[p].year
           s == loc[p].sector
           target == findTermById(p, id)
           keyTaken == \E r \in terms : /\ r.id # id /\ r.year = y /\ r.sector = s
                                        /\ r.xmin = 0 /\ r.xmax = 0
           keyPending == \E r \in terms :
                            /\ r.id # id /\ r.year = y /\ r.sector = s
                            /\ \/ (r.xmin # 0 /\ r.xmin # p /\ r.xmax = 0)
                               \/ (r.xmin = 0 /\ LockedByOther(p, r))
           keyMoves == \E r \in target : r.year # y \/ r.sector # s
           newRows == {[r EXCEPT !.year = y, !.sector = s, !.xmin = p] : r \in target}
           written == DeleteRows(p, terms, target) \cup newRows
       IN  /\ ~\E r \in target : LockedByOther(p, r)
           /\ ~(keyMoves /\ keyPending)
           /\ IF keyMoves /\ keyTaken
              THEN /\ Answer(p, loc[p], handleError("23505"), "ut_update")
                   /\ UNCHANGED terms
              ELSE IF loc[p].hasSubs
              THEN /\ terms' = written
                   /\ inTx' = [inTx EXCEPT ![p] = TRUE]
                   /\ loc' = [loc EXCEPT ![p].upd = (target # {})]
                   /\ pc' = [pc EXCEPT ![p] = "rp_delete"]
                   /\ UNCHANGED done
              ELSE /\ terms' = CommitRows(p, written)
                   /\ Answer(p, loc[p],
                             IF target # {} THEN "OK" ELSE handleError("TypeError"),
                             "ut_update")
    /\ UNCHANGED <<tsubs, profs, lects, seqs, last, works>>

----------------------------------------------------------------------------
(* deleteTerm *)

deleteTerm_check(p, termId) ==
    /\ pc[p] = "idle"
    /\ LET l == Locals("deleteTerm", termId, 0, 0, FALSE, <<>>)
       IN  IF findTermById(p, termId) = {}
           THEN Answer(p, l, handleError("TERM_NOT_FOUND"), "dt_check")
           ELSE /\ pc' = [pc EXCEPT ![p] = "dt_delete"]
                /\ loc' = [loc EXCEPT ![p] = l]
                /\ UNCHANGED <<inTx, done>>
    /\ UNCHANGED <<terms, tsubs, profs, lects, seqs, last, works>>

\* BEGIN, DELETE FROM terms (cascading to term_subjects and on to the
\* assignment tables), COMMIT.  The DELETE waits for every open transaction
\* that holds the term row or one of its term subjects.
deleteTerm_delete(p) ==
    /\ pc[p] = "dt_delete"
    /\ LET id == loc[p].termId
           subjects == {r \in tsubs : r.term = id}
       IN  /\ ~\E r \in terms : r.id = id /\ (r.xmin # 0 \/ r.xmax # 0)
           /\ ~\E r \in subjects : r.xmin # 0 \/ r.xmax # 0
           /\ terms' = {r \in terms : r.id # id}
           /\ tsubs' = tsubs \ subjects
           /\ profs' = {a \in profs : a.ts \notin {r.id : r \in subjects}}
           /\ lects' = {a \in lects : a.ts \notin {r.id : r \in subjects}}
           /\ works' = {w \in works : w.ts \notin {r.id : r \in subjects}}
    /\ Answer(p, loc[p], "OK", "dt_delete")
    /\ UNCHANGED <<seqs, last>>

----------------------------------------------------------------------------
(* Term workflows *)

SubjectLists == {<<>>, <<1>>, <<1, BadSubject>>}

TermIds == 1..MaxTerms

\* Create, edit and delete terms, two requests at a time.
NextTerm ==
    \/ \E p \in Procs, y \in Years, s \in Sectors, l \in SubjectLists :
          createTerm_check(p, y, s, l)
    \/ \E p \in Procs : createTerm_insert(p)
    \/ \E p \in Procs, f \in BOOLEAN : createTerm_subjects(p, f)
    \/ \E p \in Procs, t \in TermIds, y \in Years, s \in Sectors :
          updateTerm_check(p, t, y, s, FALSE, <<>>)
    \/ \E p \in Procs : updateTerm_update(p)
    \/ \E p \in Procs, t \in TermIds : deleteTerm_check(p, t)
    \/ \E p \in Procs : deleteTerm_delete(p)

SpecTerm == Init /\ [][NextTerm]_vars

ReplaceLists == {<<>>, <<2, 1>>, <<1, 1>>, <<2, BadSubject>>}

\* Replace the subjects of the stored term, two requests at a time.
NextReplace ==
    \/ \E p \in Procs, l \in ReplaceLists : updateTermSubjects_check(p, 1, l)
    \/ \E p \in Procs, s \in Sectors, l \in {<<1>>, <<2, BadSubject>>} :
          updateTerm_check(p, 1, 2568, s, TRUE, l)
    \/ \E p \in Procs : updateTerm_update(p)
    \/ \E p \in Procs : replace_delete(p)
    \/ \E p \in Procs : replace_resume(p)
    \/ \E p \in Procs, f \in BOOLEAN : replace_bulk(p, f)

SpecReplace == InitWorkload /\ [][NextReplace]_vars

----------------------------------------------------------------------------
(* Terms: uniqueness of the key and atomicity of the multi-step writes *)

\* The versions of a table that are stored, whatever open transactions do.
Stored(rows) == {r \in rows : r.xmin = 0}

\* C6: at every point of any run of term create, update and delete calls,
\* concurrent ones included, no two stored terms have the same
\* (academic_year, academic_sector).
C6_UniqueTermKey ==
    \A a, b \in Stored(terms) :
        (a.year = b.year /\ a.sector = b.sector) => a.id = b.id

\* Two creates of one key both passed the pre-check; the store refused the
\* second and one term with the key is stored.
C6_Witness ==
    /\ done.op = "createTerm" /\ done.at = "ct_insert"
    /\ \E r \in Stored(terms) : r.year = done.year /\ r.sector = done.sector

\* C7: of two creates with one (year, sector) exactly one creates the term
\* and the other answers DUPLICATE_TERM: a create that finds the key stored,
\* at the pre-check or at the insert after a concurrent create won, answers
\* DUPLICATE_TERM and stores nothing; a create that answers OK has stored
\* the only term with its key.
C7_DuplicateTermRejected ==
    [][\A p \in Procs :
        /\ \A y \in Years, s \in Sectors, l \in SubjectLists :
              (/\ createTerm_check(p, y, s, l)
               /\ \E r \in Stored(terms) : r.year = y /\ r.sector = s)
              => (done'.code = "DUPLICATE_TERM" /\ terms' = terms)
        /\ (createTerm_insert(p) /\ pc'[p] = "idle")
              => /\ done'.code = "DUPLICATE_TERM"
                 /\ terms' = terms
                 /\ \E r \in Stored(terms) :
                       r.year = loc[p].year /\ r.sector = loc[p].sector
        /\ \A f \in BOOLEAN :
              (createTerm_subjects(p, f) /\ done'.code = "OK")
              => /\ ~\E r \in Stored(terms) :
                        r.year = loc[p].year /\ r.sector = loc[p].sector
                 /\ {r.id : r \in {x \in Stored(terms') :
                        x.year = loc[p].year /\ x.sector = loc[p].sector}}
                    = {loc[p].termId}]_vars

\* The create that lost the race after passing the pre-check was answered
\* DUPLICATE_TERM, and exactly one term with its key is stored.
C7_Witness ==
    /\ done.op = "createTerm" /\ done.at = "ct_insert"
    /\ done.code = "DUPLICATE_TERM"
    /\ Cardinality({r \in Stored(terms) :
                      r.year = done.year /\ r.sector = done.sector}) = 1

\* C8: when attaching the subjects of a createTerm fails, neither the term
\* row nor any term subject row of that call exists after the call.
C8_CreateAllOrNothing ==
    [][\A p \in Procs, f \in BOOLEAN :
        (createTerm_subjects(p, f) /\ done'.code # "OK")
        => /\ ~\E r \in terms' : r.id = loc[p].termId
           /\ ~\E r \in tsubs' : r.term = loc[p].termId]_vars

\* A create whose subject list named a subject that does not exist failed
\* after its term row had been inserted.
C8_Witness ==
    /\ done.op = "createTerm" /\ done.at = "ct_subjects"
    /\ done.code = "FOREIGN_KEY_VIOLATION" /\ done.termId > 0
    /\ ~\E r \in terms : r.id = done.termId

\* C9: when the insert of the new list fails after the old term subject
\* rows were deleted, every one of the deleted rows is stored again, as it
\* was, after the call.
C9_ReplaceAllOrNothing ==
    [][\A p \in Procs, f \in BOOLEAN :
        (replace_bulk(p, f) /\ done'.code # "OK")
        => \A id \in loc[p].deleted :
              /\ \E r \in tsubs' : r.id = id /\ r.xmin = 0 /\ r.xmax = 0
              /\ \A r \in tsubs' : r.id = id =>
                    \E o \in tsubs : o.id = id /\ r = [o EXCEPT !.xmax = 0]]_vars

\* A replace deleted the two rows of the term, failed at the insert, and
\* the two rows are stored.
C9_Witness ==
    /\ done.op = "updateTermSubjects" /\ done.at = "rp_bulk"
    /\ done.code = "FOREIGN_KEY_VIOLATION" /\ Cardinality(done.deleted) = 2
    /\ \A id \in done.deleted :
          \E r \in tsubs : r.id = id /\ r.xmin = 0 /\ r.xmax = 0

----------------------------------------------------------------------------
(* Lecturer assignments.  The repository functions of                      *)
(* term_subject_lecturers are modelled from the specification: an          *)
(* assignment is created not responsible, clearing touches every row of    *)
(* the term subject, updating and deleting address one row by its id.      *)
(* Each takes the request whose transaction issues the statement.          *)

\* What a lecturer request remembers between its round trips: the
\* assignment row it read before BEGIN.
LecturerLocals(op, termSubjectId, userId, assignment) ==
    [op |-> op, ts |-> termSubjectId, user |-> userId, assignment |-> assignment,
     cleared |-> {}]

\* Record of a completed lecturer request; cleared: the assignments whose
\* is_responsible the request turned off.
LecturerRequest(l, code, at) ==
    [op |-> l.op, ts |-> l.ts, user |-> l.user, cleared |-> l.cleared,
     code |-> code, at |-> at]

AnswerLecturer(p, l, code, at) ==
    /\ done' = LecturerRequest(l, code, at)
    /\ pc' = [pc EXCEPT ![p] = "idle"]
    /\ loc' = [loc EXCEPT ![p] = Released]
    /\ inTx' = [inTx EXCEPT ![p] = FALSE]

findLecturerAssignment(p, termSubjectId, userId) ==
    {r \in Visible(p, lects) : r.ts = termSubjectId /\ r.user = userId}

findLecturerAssignmentById(p, assignmentId) ==
    {r \in Visible(p, lects) : r.id = assignmentId}

countLecturers(p, termSubjectId) ==
    Cardinality({r \in Visible(p, lects) : r.ts = termSubjectId})

\* UPDATE by owner o of the target versions: the old versions are marked
\* superseded and the new ones belong to o; a version o wrote itself is
\* rewritten in place.
UpdateRows(o, rows, targets, responsible) ==
    LET mine == {r \in targets : r.xmin = o}
        others == targets \ mine
    IN  (rows \ targets)
          \cup {[r EXCEPT !.resp = responsible] : r \in mine}
          \cup (IF o = NoTx THEN {} ELSE {[r EXCEPT !.xmax = o] : r \in others})
          \cup {[r EXCEPT !.resp = responsible, !.xmin = o] : r \in others}

\* UPDATE ... SET is_responsible = false WHERE term_subject_id = $1
clearResponsibleLecturers(p, rows, termSubjectId) ==
    UpdateRows(p, rows,
               {r \in Visible(p, rows) : r.ts = termSubjectId /\ r.xmax = 0}, FALSE)

\* UPDATE ... SET is_responsible = $2 WHERE id = $1
updateLecturerAssignment(p, rows, assignmentId, responsible) ==
    UpdateRows(p, rows,
               {r \in Visible(p, rows) : r.id = assignmentId /\ r.xmax = 0},
               responsible)

\* DELETE ... WHERE id = $1
deleteLecturerAssignment(p, rows, assignmentId) ==
    DeleteRows(p, rows,
               {r \in Visible(p, rows) : r.id = assignmentId /\ r.xmax = 0})

\* assign(termSubjectId, userId): a conflict-free upsert in one statement;
\* the insert waits for an open transaction that holds the pair's row.
assignLecturer(p, termSubjectId, userId) ==
    /\ pc[p] = "idle"
    /\ seqs.lects < MaxAssignments
    /\ ~\E r \in lects : r.ts = termSubjectId /\ r.user = userId /\ r.xmax # 0
    /\ LET l == LecturerLocals("assignLecturer", termSubjectId, userId, 0)
           exists == findLecturerAssignment(p, termSubjectId, userId) # {}
       IN  IF findTermSubjectById(p, termSubjectId) = {}
           THEN /\ AnswerLecturer(p, l, "TERM_SUBJECT_NOT_FOUND", "as_check")
                /\ UNCHANGED <<lects, seqs>>
           ELSE /\ lects' = IF exists THEN lects
                            ELSE lects \cup {[id |-> seqs.lects + 1,
                                              ts |-> termSubjectId, user |-> userId,
                                              resp |-> FALSE,
                                              xmin |-> NoTx, xmax |-> 0]}
                /\ seqs' = IF exists THEN seqs ELSE [seqs EXCEPT !.lects = @ + 1]
                /\ AnswerLecturer(p, l, "OK", "as_insert")
    /\ UNCHANGED <<terms, tsubs, profs, last, works>>

\* changeResponsibleLecturer up to BEGIN: the two reads outside the
\* transaction.
changeResponsible_check(p, termSubjectId, newResponsibleUserId) ==
    /\ pc[p] = "idle"
    /\ LET found == findLecturerAssignment(p, termSubjectId, newResponsibleUserId)
           l == LecturerLocals("changeResponsible", termSubjectId,
                               newResponsibleUserId,
                               IF found = {} THEN 0
                               ELSE (CHOOSE r \in found : TRUE).id)
       IN  IF findTermSubjectById(p, termSubjectId) = {}
           THEN AnswerLecturer(p, l, "TERM_SUBJECT_NOT_FOUND", "cr_check")
           ELSE IF found = {}
           THEN AnswerLecturer(p, l, "LECTURER_NOT_ASSIGNED", "cr_check")
           ELSE /\ pc' = [pc EXCEPT ![p] = "cr_clear"]
                /\ loc' = [loc EXCEPT ![p] = l]
                /\ UNCHANGED <<inTx, done>>
    /\ UNCHANGED <<terms, tsubs, profs, lects, seqs, last, works>>

\* Variant: the transaction sets the new responsible lecturer without
\* clearing the others.
changeResponsible_clear_Skipped(p) ==
    /\ pc[p] = "cr_clear"
    /\ inTx' = [inTx EXCEPT ![p] = TRUE]
    /\ pc' = [pc EXCEPT ![p] = "cr_set"]
    /\ UNCHANGED <<terms, tsubs, profs, lects, seqs, loc, done, last, works>>

\* BEGIN and clearResponsibleLecturers.  The UPDATE waits for every open
\* transaction that holds a row of the term subject and then works on the
\* rows as that transaction left them.
changeResponsible_clear(p) ==
    /\ pc[p] = "cr_clear"
    /\ ~\E r \in lects : r.ts = loc[p].ts /\ LockedByOther(p, r)
    /\ inTx' = [inTx EXCEPT ![p] = TRUE]
    /\ lects' = clearResponsibleLecturers(p, lects, loc[p].ts)
    /\ loc' = [loc EXCEPT ![p].cleared =
                  {r.id : r \in {x \in Visible(p, lects) :
                                    x.ts = loc[p].ts /\ x.xmax = 0 /\ x.resp}}]
    /\ pc' = [pc EXCEPT ![p] = "cr_set"]
    /\ UNCHANGED <<terms, tsubs, profs, seqs, done, last, works>>

\* Variant: the transaction commits without updating the target row.
changeResponsible_set_NoUpdate(p) ==
    /\ pc[p] = "cr_set"
    /\ ~\E r \in lects : r.id = loc[p].assignment /\ LockedByOther(p, r)
    /\ lects' = CommitRows(p, lects)
    /\ AnswerLecturer(p, loc[p], "OK", "cr_set")
    /\ UNCHANGED <<terms, tsubs, profs, seqs, last, works>>

\* updateLecturerAssignment(client, lecturerAssignment.id,
\* {is_responsible: true}) and COMMIT.
changeResponsible_set(p) ==
    /\ pc[p] = "cr_set"
    /\ ~\E r \in lects : r.id = loc[p].assignment /\ LockedByOther(p, r)
    /\ lects' = CommitRows(p, updateLecturerAssignment(p, lects,
                                                      loc[p].assignment, TRUE))
    /\ AnswerLecturer(p, loc[p], "OK", "cr_set")
    /\ UNCHANGED <<terms, tsubs, profs, seqs, last, works>>

\* Variant: a responsible lecturer is refused without counting colleagues.
removeLecturer_check_NoCount(p, assignmentId) ==
    /\ pc[p] = "idle"
    /\ LET found == findLecturerAssignmentById(p, assignmentId)
           a == CHOOSE r \in found : TRUE
           l == IF found = {}
                THEN LecturerLocals("removeLecturer", 0, 0, assignmentId)
                ELSE LecturerLocals("removeLecturer", a.ts, a.user, assignmentId)
       IN  IF found = {}
           THEN AnswerLecturer(p, l, "ASSIGNMENT_NOT_FOUND", "rm_check")
           ELSE IF a.resp
           THEN AnswerLecturer(p, l, "CANNOT_REMOVE_RESPONSIBLE", "rm_check")
           ELSE /\ pc' = [pc EXCEPT ![p] = "rm_delete"]
                /\ loc' = [loc EXCEPT ![p] = l]
                /\ UNCHANGED <<inTx, done>>
    /\ UNCHANGED <<terms, tsubs, profs, lects, seqs, last, works>>

\* removeLecturer up to BEGIN: the assignment is read, and a responsible
\* lecturer with colleagues is refused.
removeLecturer_check(p, assignmentId) ==
    /\ pc[p] = "idle"
    /\ LET found == findLecturerAssignmentById(p, assignmentId)
           a == CHOOSE r \in found : TRUE
           l == IF found = {}
                THEN LecturerLocals("removeLecturer", 0, 0, assignmentId)
                ELSE LecturerLocals("removeLecturer", a.ts, a.user, assignmentId)
       IN  IF found = {}
           THEN AnswerLecturer(p, l, "ASSIGNMENT_NOT_FOUND", "rm_check")
           ELSE IF a.resp /\ countLecturers(p, a.ts) > 1
           THEN AnswerLecturer(p, l, "CANNOT_REMOVE_RESPONSIBLE", "rm_check")
           ELSE /\ pc' = [pc EXCEPT ![p] = "rm_delete"]
                /\ loc' = [loc EXCEPT ![p] = l]
                /\ UNCHANGED <<inTx, done>>
    /\ UNCHANGED <<terms, tsubs, profs, lects, seqs, last, works>>

\* BEGIN, deleteLecturerAssignment, COMMIT.
removeLecturer_delete(p) ==
    /\ pc[p] = "rm_delete"
    /\ ~\E r \in lects : r.id = loc[p].assignment /\ LockedByOther(p, r)
    /\ lects' = CommitRows(p, deleteLecturerAssignment(p, lects, loc[p].assignment))
    /\ AnswerLecturer(p, loc[p], "OK", "rm_delete")
    /\ UNCHANGED <<terms, tsubs, profs, seqs, last, works>>

AssignmentIds == 1..MaxAssignments

\* Assign, remove and change the responsible lecturer, two requests at a
\* time, on the term subjects of the stored term and on a missing one.
NextAssign ==
    \/ \E p \in Procs, t \in TsIds, u \in UserIds : assignLecturer(p, t, u)
    \/ \E p \in Procs, t \in TsIds, u \in UserIds : changeResponsible_check(p, t, u)
    \/ \E p \in Procs : changeResponsible_clear(p)
    \/ \E p \in Procs : changeResponsible_set(p)
    \/ \E p \in Procs, a \in AssignmentIds : removeLecturer_check(p, a)
    \/ \E p \in Procs : removeLecturer_delete(p)

SpecAssign == InitWorkload /\ [][NextAssign]_vars

\* C10: after any run of assign, remove and changeResponsible calls,
\* concurrent changeResponsible calls for different lecturers of one term
\* subject included, at most one stored assignment of each term subject
\* has is_responsible = true.
C10_AtMostOneResponsible ==
    \A t \in TsIds :
        Cardinality({r \in Stored(lects) : r.ts = t /\ r.resp}) <= 1

\* A changeResponsible committed and took the designation from another
\* lecturer of the term subject, while a concurrent changeResponsible that
\* names that other lecturer has passed its reads and stands before BEGIN.
C10_Witness ==
    /\ done.op = "changeResponsible" /\ done.code = "OK"
    /\ done.cleared # {}
    /\ \E r \in Stored(lects) : r.ts = done.ts /\ r.user = done.user /\ r.resp
    /\ \E r \in Stored(lects) : r.ts = done.ts /\ r.user # done.user /\ ~r.resp
    /\ \E q \in Procs : pc[q] = "cr_clear" /\ loc[q].ts = done.ts
                        /\ loc[q].user # done.user

----------------------------------------------------------------------------
(* Lecturer assignments, one request at a time *)

NextAssignSeq ==
    \/ \E t \in TsIds, u \in UserIds : assignLecturer(1, t, u)
    \/ \E t \in TsIds, u \in UserIds : changeResponsible_check(1, t, u)
    \/ changeResponsible_clear(1)
    \/ changeResponsible_set(1)
    \/ \E a \in AssignmentIds : removeLecturer_check(1, a)
    \/ removeLecturer_delete(1)

SpecAssignSeq == InitWorkload /\ [][NextAssignSeq]_vars

\* The stored assignments of a term subject.
LecturersOf(rows, termSubjectId) == {r \in Stored(rows) : r.ts = termSubjectId}

\* C11: a changeResponsible(termSubjectId, newUserId) that reports success
\* leaves the assignment of newUserId responsible and every other
\* assignment of the term subject not responsible.
C11_ChangeSetsExactlyTarget ==
    [][(changeResponsible_set(1) /\ done'.code = "OK")
       => /\ \E r \in LecturersOf(lects', loc[1].ts) :
                r.user = loc[1].user /\ r.resp
          /\ \A r \in LecturersOf(lects', loc[1].ts) :
                r.resp <=> r.user = loc[1].user]_vars

\* A change took the designation from one lecturer and gave it to the
\* lecturer it named.
C11_Witness ==
    /\ done.op = "changeResponsible" /\ done.code = "OK" /\ done.cleared # {}
    /\ \E r \in LecturersOf(lects, done.ts) : r.user = done.user /\ r.resp
    /\ \E r \in LecturersOf(lects, done.ts) : r.user # done.user /\ ~r.resp

\* C12: removing the responsible lecturer while another lecturer is
\* assigned to the term subject fails with CANNOT_REMOVE_RESPONSIBLE and
\* deletes nothing; removing the only assignee succeeds, responsible or not.
C12_RemoveResponsibleRefused ==
    [][/\ \A a \in AssignmentIds :
            removeLecturer_check(1, a) =>
               \A r \in Stored(lects) : r.id = a =>
                  IF r.resp /\ Cardinality(LecturersOf(lects, r.ts)) > 1
                  THEN done'.code = "CANNOT_REMOVE_RESPONSIBLE" /\ pc'[1] = "idle"
                  ELSE pc'[1] = "rm_delete"
       /\ removeLecturer_delete(1) =>
             /\ done'.code = "OK"
             /\ ~\E r \in lects' : r.id = loc[1].assignment
             /\ lects' \subseteq lects
       /\ (\E a \in AssignmentIds : removeLecturer_check(1, a)) => lects' = lects]_vars

\* The responsible lecturer of a term subject with two lecturers was
\* refused, and both are still assigned.
C12_Witness ==
    /\ done.op = "removeLecturer" /\ done.code = "CANNOT_REMOVE_RESPONSIBLE"
    /\ Cardinality(LecturersOf(lects, done.ts)) = 2
    /\ \E r \in LecturersOf(lects, done.ts) : r.user = done.user /\ r.resp

----------------------------------------------------------------------------
(* Remove and change of the responsible lecturer, two requests at a time *)

\* The store after assign(1, 1), assign(1, 2), assign(2, 1),
\* changeResponsible(1, 1) and changeResponsible(2, 1) have committed.
InitAssigned ==
    /\ terms = {[id |-> 1, year |-> 2568, sector |-> 1, xmin |-> 0, xmax |-> 0]}
    /\ tsubs = {[id |-> s, term |-> 1, subject |-> s, wa |-> PENDING,
                 xmin |-> 0, xmax |-> 0] : s \in SubjectIds}
    /\ profs = {}
    /\ lects = {[id |-> 1, ts |-> 1, user |-> 1, resp |-> TRUE, xmin |-> 0, xmax |-> 0],
                [id |-> 2, ts |-> 1, user |-> 2, resp |-> FALSE, xmin |-> 0, xmax |-> 0],
                [id |-> 3, ts |-> 2, user |-> 1, resp |-> TRUE, xmin |-> 0, xmax |-> 0]}
    /\ seqs = [terms |-> 1, tsubs |-> 2, lects |-> 3]
    /\ pc = Idle /\ loc = NoLocals
    /\ inTx = [p \in Procs |-> FALSE]
    /\ done = NoRequest
    /\ last = NoCall
    /\ works = {}

NextResponsible ==
    \/ \E p \in Procs, t \in TsIds, u \in UserIds : changeResponsible_check(p, t, u)
    \/ \E p \in Procs : changeResponsible_clear(p)
    \/ \E p \in Procs : changeResponsible_set(p)
    \/ \E p \in Procs, a \in 1..3 : removeLecturer_check(p, a)
    \/ \E p \in Procs : removeLecturer_delete(p)

SpecResponsible == InitAssigned /\ [][NextResponsible]_vars

HasResponsible(rows, termSubjectId) ==
    \E r \in LecturersOf(rows, termSubjectId) : r.resp

\* C13: a term subject that has a responsible lecturer never comes to have
\* lecturers assigned of whom none is responsible, under any interleaving
\* of remove and changeResponsible calls.
C13_NeverLosesResponsible ==
    [][\A t \in TsIds :
          HasResponsible(lects, t) =>
             (LecturersOf(lects', t) = {} \/ HasResponsible(lects', t))]_vars

----------------------------------------------------------------------------
(* Assigning a professor twice *)

----------------------------------------------------------------------------
(* Work items and the weekly workload chart.  Dates are day numbers. *)

Weeks == 1..16

\* term_start_date of the stored term.
termStartDate(termId) == 3

\* subjects_student_years: the student years each subject is taught to.
SubjectYears == [s \in SubjectIds |-> IF s = 1 THEN {1} ELSE {2, 3}]

\* Inputs of createWork, as day offsets from the term start.
StartOffsets == {14, 15}
EndOffsets == {13, 20, 34, 35}
HoursPerWeek == {3}
YearFilters == {{1, 2, 3, 4}, {1, 2}}

\* validateCreateWorkInput on well-formed fields: end_date >= start_date
\* and 0 < hours_per_week <= 168.
validateCreateWorkInput(startDate, endDate, hours) ==
    endDate >= startDate /\ hours > 0 /\ hours <= 168

\* createWork: validation, existence of the term subject, INSERT.
createWork(termSubjectId, startDate, endDate, hours) ==
    LET code == IF ~validateCreateWorkInput(startDate, endDate, hours)
                THEN "VALIDATION_ERROR"
                ELSE IF findTermSubjectById(NoTx, termSubjectId) = {}
                THEN "TERM_SUBJECT_NOT_FOUND"
                ELSE "OK"
        id == CHOOSE i \in FreshIds({w.id : w \in works}, 1) : TRUE
    IN  /\ Cardinality(works) < MaxWorks
        /\ works' = IF code = "OK"
                    THEN works \cup {[id |-> id, ts |-> termSubjectId,
                                      start |-> startDate, end |-> endDate,
                                      hours |-> hours, xmin |-> 0, xmax |-> 0]}
                    ELSE works
        /\ last' = [op |-> "createWork", ts |-> termSubjectId, code |-> code]
        /\ UNCHANGED <<terms, tsubs, profs, lects, seqs, pc, loc, inTx, done>>

\* deleteWork: existence check, DELETE.
deleteWork(workId) ==
    LET found == {w \in Visible(NoTx, works) : w.id = workId}
    IN  /\ works' = works \ found
        /\ last' = [op |-> "deleteWork", ts |-> 0,
                    code |-> IF found = {} THEN "WORKLOAD_NOT_FOUND" ELSE "OK"]
        /\ UNCHANGED <<terms, tsubs, profs, lects, seqs, pc, loc, inTx, done>>

\* The CASE of getWorkloadChartData:
\*   start_date <= term_start_date + week_number * 7 days
\*   AND end_date >= term_start_date + (week_number - 1) * 7 days
InWeek(w, week, termStart) ==
    /\ w.start <= termStart + week * 7
    /\ w.end >= termStart + (week - 1) * 7

\* filtered_workloads: one row per work item of the term and per selected
\* student year of its subject.
Copies(w, termId, yearLevels) ==
    LET ts == {r \in Visible(NoTx, tsubs) : r.id = w.ts /\ r.term = termId}
    IN  IF ts = {} THEN 0
        ELSE Cardinality(SubjectYears[(CHOOSE r \in ts : TRUE).subject]
                            \cap yearLevels)

\* SUM(CASE WHEN ... THEN hours_per_week ELSE 0 END) of one week.
RECURSIVE SumWeek(_, _, _, _)
SumWeek(rows, week, termId, yearLevels) ==
    IF rows = {} THEN 0
    ELSE LET w == CHOOSE x \in rows : TRUE
         IN  (IF InWeek(w, week, termStartDate(termId))
              THEN w.hours * Copies(w, termId, yearLevels) ELSE 0)
             + SumWeek(rows \ {w}, week, termId, yearLevels)

getWorkloadChartData(termId, yearLevels) ==
    [k \in Weeks |-> SumWeek(Visible(NoTx, works), k, termId, yearLevels)]

\* getWorkloadChart of the dashboard service for a named term.
getWorkloadChart(termId, yearLevels) ==
    /\ last' = IF findTermById(NoTx, termId) = {}
               THEN [op |-> "chart", term |-> termId, years |-> yearLevels,
                     code |-> "Error", totals |-> [k \in Weeks |-> 0]]
               ELSE [op |-> "chart", term |-> termId, years |-> yearLevels,
                     code |-> "OK",
                     totals |-> getWorkloadChartData(termId, yearLevels)]
    /\ UNCHANGED <<terms, tsubs, profs, lects, seqs, pc, loc, inTx, done, works>>

NextChart ==
    \/ \E t \in TsIds, a \in StartOffsets, b \in EndOffsets, h \in HoursPerWeek :
          createWork(t, termStartDate(1) + a, termStartDate(1) + b, h)
    \/ \E i \in 1..MaxWorks : deleteWork(i)
    \/ \E t \in 1..2, ys \in YearFilters : getWorkloadChart(t, ys)

SpecChart == InitWorkload /\ [][NextChart]_vars

\* C15: week k covers the 7 days from term_start + (k-1)*7, and a work
\* item whose dates cover exactly weeks 3 to 5 adds its full
\* hours_per_week to weeks 3, 4 and 5 and nothing to any other week.
C15_ExactlyWeeksThreeToFive ==
    [][\A t \in 1..2, ys \in YearFilters, w \in works :
         (/\ getWorkloadChart(t, ys)
          /\ works = {w}
          /\ Copies(w, t, ys) = 1
          /\ w.start = termStartDate(t) + 14
          /\ w.end = termStartDate(t) + 34)
         => \A k \in Weeks :
               last'.totals[k] = IF k \in 3..5 THEN w.hours ELSE 0]_vars

----------------------------------------------------------------------------
(* Attaching and detaching one subject, two requests at a time *)

\* Term subject controller: what handleError reports for a thrown error.
termSubject_handleError(error) ==
    CASE error = "23505" -> "DUPLICATE_ENTRY"
      [] error = "23503" -> "FOREIGN_KEY_VIOLATION"
      [] error \in {"TERM_NOT_FOUND", "DUPLICATE_TERM_SUBJECT",
                    "TERM_SUBJECT_NOT_FOUND"} -> error
      [] OTHER -> "INTERNAL_SERVER_ERROR"

findTermSubjectByTermAndSubject(p, termId, subjectId) ==
    {r \in Visible(p, tsubs) : r.term = termId /\ r.subject = subjectId}

\* addSubjectToTerm up to BEGIN: the term exists and the pair is not
\* attached yet.
addSubjectToTerm_check(p, termId, subjectId) ==
    /\ pc[p] = "idle"
    /\ LET l == Locals("addSubjectToTerm", termId, 0, 0, TRUE, <<subjectId>>)
           code == IF findTermById(p, termId) = {} THEN "TERM_NOT_FOUND"
                   ELSE IF findTermSubjectByTermAndSubject(p, termId, subjectId) # {}
                        THEN "DUPLICATE_TERM_SUBJECT"
                   ELSE "OK"
       IN  IF code # "OK"
           THEN Answer(p, l, termSubject_handleError(code), "at_check")
           ELSE /\ pc' = [pc EXCEPT ![p] = "at_insert"]
                /\ loc' = [loc EXCEPT ![p] = l]
                /\ UNCHANGED <<inTx, done>>
    /\ UNCHANGED <<terms, tsubs, profs, lects, seqs, last, works>>

\* BEGIN, insertTermSubject, COMMIT; the catch block rolls back and
\* rethrows what the store raised.
addSubjectToTerm_insert(p) ==
    /\ pc[p] = "at_insert"
    /\ LET termId == loc[p].termId
           subjectId == loc[p].subs[1]
           out == IF TermSubjectTaken(p, termId, subjectId) THEN "23505"
                  ELSE IF ~SubjectExists(subjectId) \/ ~TermRowExists(p, termId)
                       THEN "23503"
                  ELSE "ok"
           id == CHOOSE i \in FreshIds({r.id : r \in tsubs}, 1) : TRUE
       IN  /\ ~TermSubjectPending(p, termId, subjectId)
           /\ IF out = "ok"
              THEN /\ tsubs' = tsubs \cup {[id |-> id, term |-> termId,
                                           subject |-> subjectId, wa |-> PENDING,
                                           xmin |-> 0, xmax |-> 0]}
                   /\ Answer(p, loc[p], "OK", "at_insert")
              ELSE /\ tsubs' = tsubs
                   /\ Answer(p, loc[p], termSubject_handleError(out), "at_insert")
    /\ UNCHANGED <<terms, profs, lects, seqs, last, works>>

\* removeSubjectFromTerm: existence check, then BEGIN, deleteTermSubject
\* (cascading to the assignments and work items), COMMIT.  A DELETE of a
\* row that is gone deletes nothing, so the two are one step.
removeSubjectFromTerm(p, termSubjectId) ==
    /\ pc[p] = "idle"
    /\ LET l == Locals("removeSubjectFromTerm", 0, 0, 0, FALSE, <<>>)
           found == findTermSubjectById(p, termSubjectId)
       IN  /\ ~\E r \in found : LockedByOther(p, r)
           /\ tsubs' = tsubs \ found
           /\ profs' = {a \in profs : a.ts \notin {r.id : r \in found}}
           /\ lects' = {a \in lects : a.ts \notin {r.id : r \in found}}
           /\ works' = {w \in works : w.ts \notin {r.id : r \in found}}
           /\ Answer(p, l, IF found = {}
                           THEN termSubject_handleError("TERM_SUBJECT_NOT_FOUND")
                           ELSE "OK", "rs_delete")
    /\ UNCHANGED <<terms, seqs, last>>

NextAttach ==
    \/ \E p \in Procs, t \in 1..2, s \in SubjectIds \cup {BadSubject} :
          addSubjectToTerm_check(p, t, s)
    \/ \E p \in Procs : addSubjectToTerm_insert(p)
    \/ \E p \in Procs, i \in TsIds : removeSubjectFromTerm(p, i)

SpecAttach == InitWorkload /\ [][NextAttach]_vars

\* C16: attach of a (term, subject) pair that is already stored fails with
\* DUPLICATE_TERM_SUBJECT and adds no row, at the pre-check and also at the
\* insert of a request that passed the pre-check together with another.
C16_DuplicateAttachRejected ==
    [][\A p \in Procs :
        /\ \A t \in 1..2, s \in SubjectIds :
              (/\ addSubjectToTerm_check(p, t, s)
               /\ \E r \in Settled(tsubs) : r.term = t /\ r.subject = s)
              => (done'.code = "DUPLICATE_TERM_SUBJECT" /\ tsubs' = tsubs)
        /\ (/\ addSubjectToTerm_insert(p)
            /\ \E r \in Settled(tsubs) :
                  r.term = loc[p].termId /\ r.subject = loc[p].subs[1])
              => (done'.code = "DUPLICATE_TERM_SUBJECT" /\ tsubs' = tsubs)]_vars

----------------------------------------------------------------------------
(* replaceAll, one request at a time, on a term whose subjects carry       *)
(* assignments, work items and approval states                             *)

\* The store after createTerm of 2568/1 with subject_ids [1, 2], the
\* assignment of a professor and a lecturer to both term subjects, a work
\* item on the first, and the approval of the first one's workload.
InitScoped ==
    /\ terms = {[id |-> 1, year |-> 2568, sector |-> 1, xmin |-> 0, xmax |-> 0]}
    /\ tsubs = {[id |-> s, term |-> 1, subject |-> s,
                 wa |-> IF s = 1 THEN APPROVED ELSE SUBMITTED,
                 xmin |-> 0, xmax |-> 0] : s \in SubjectIds}
    /\ profs = {[ts |-> s, user |-> 1, xmin |-> 0, xmax |-> 0] : s \in SubjectIds}
    /\ lects = {[id |-> s, ts |-> s, user |-> 1, resp |-> FALSE,
                 xmin |-> 0, xmax |-> 0] : s \in SubjectIds}
    /\ seqs = [terms |-> 1, tsubs |-> 2, lects |-> 2]
    /\ pc = Idle /\ loc = NoLocals
    /\ inTx = [p \in Procs |-> FALSE]
    /\ done = NoRequest
    /\ last = NoCall
    /\ works = {[id |-> 1, ts |-> 1, start |-> 17, end |-> 37, hours |-> 3,
                 xmin |-> 0, xmax |-> 0]}

SeqLists == {<<>>, <<1>>, <<2, 1>>, <<1, 1>>}

\* Requests are served one at a time: a request starts when none is open.
NextReplaceSeq ==
    \/ \E l \in SeqLists : updateTermSubjects_check(1, 1, l)
    \/ replace_delete(1)
    \/ \E f \in BOOLEAN : replace_bulk(1, f)
    \/ pc = Idle /\ \E t \in TsIds : assignProfessorToSubject(t, 1)
    \/ pc = Idle /\ \E t \in TsIds : submitWorkload(t, 1)
    \/ pc = Idle /\ \E t \in TsIds : createWork(t, 17, 37, 3)

SpecReplaceSeq == InitScoped /\ [][NextReplaceSeq]_vars

\* The step that ends a successful updateTermSubjects of request p.
ReplaceSucceeds(p) ==
    /\ loc[p].op = "updateTermSubjects"
    /\ replace_delete(p) \/ \E f \in BOOLEAN : replace_bulk(p, f)
    /\ pc'[p] = "idle" /\ done'.code = "OK"

SubjectsOf(rows, termId) == {r.subject : r \in {x \in Stored(rows) : x.term = termId}}

\* C17: when replaceAll(termId, S) succeeds the subjects attached to the
\* term are exactly the ids of S, whatever was attached before; with S
\* empty the term has no term subject, also when it had none before the
\* call, and the call answers without an error.
C17_ReplaceResultIsList ==
    /\ [][ReplaceSucceeds(1) =>
            SubjectsOf(tsubs', loc[1].termId) = Range(loc[1].subs)]_vars
    /\ [][(/\ loc[1].op = "updateTermSubjects" /\ loc[1].subs = <<>>
           /\ replace_delete(1))
          => (done'.code = "OK" /\ SubjectsOf(tsubs', loc[1].termId) = {})]_vars

\* replaceAll with the empty list succeeded on a term that had no term
\* subject left: the second of two calls.
C17_Witness ==
    /\ done.op = "updateTermSubjects" /\ done.code = "OK" /\ done.at = "rp_delete"
    /\ done.deleted = {} /\ SubjectsOf(tsubs, 1) = {}
    /\ pc = Idle

\* C19: after replaceAll succeeds every term subject of the term, also one
\* whose subject was attached before the call, has no professor and no
\* lecturer assigned, no work item, and workload approval state pending.
C19_ReplaceDestroysScopedData ==
    [][ReplaceSucceeds(1) =>
        \A r \in Stored(tsubs') :
            r.term = loc[1].termId =>
                /\ r.wa = PENDING
                /\ ~\E a \in Stored(profs') : a.ts = r.id
                /\ ~\E a \in Stored(lects') : a.ts = r.id
                /\ ~\E w \in Stored(works') : w.ts = r.id]_vars

\* A replace that deleted two term subjects succeeded and left the term
\* with the two subjects attached again, under new ids.
C19_Witness ==
    /\ done.op = "updateTermSubjects" /\ done.code = "OK" /\ done.at = "rp_bulk"
    /\ Cardinality(done.deleted) = 2
    /\ SubjectsOf(tsubs, 1) = SubjectIds
    /\ \A r \in Stored(tsubs) : r.id \notin done.deleted
    /\ pc = Idle

----------------------------------------------------------------------------
(* Attaching a list of subjects with createTerm, one request at a time *)

AttachLists == {<<1, 2>>, <<2, 1>>, <<2>>, <<1, 1>>}

NextAttachList ==
    \/ \E y \in Years, s \in Sectors, l \in AttachLists : createTerm_check(1, y, s, l)
    \/ createTerm_insert(1)
    \/ createTerm_subjects(1, FALSE)
    \/ \E t \in TermIds : deleteTerm_check(1, t)
    \/ deleteTerm_delete(1)

SpecAttachList == Init /\ [][NextAttachList]_vars

\* C18: createTerm with a list of existing subject ids answers OK and the
\* new term then lists exactly the distinct ids of the list, one term
\* subject each, whatever their order and also when an id is repeated.
C18_ListAttachedAsSet ==
    [][(createTerm_subjects(1, FALSE) /\ Range(loc[1].subs) \subseteq SubjectIds)
       => /\ done'.code = "OK"
          /\ SubjectsOf(tsubs', loc[1].termId) = Range(loc[1].subs)
          /\ \A s \in Range(loc[1].subs) :
                Cardinality({r \in Stored(tsubs') :
                               r.term = loc[1].termId /\ r.subject = s}) = 1]_vars

----------------------------------------------------------------------------
(* Editing terms *)

\* The stored term termId has the key (year, sector).
HoldsKey(termId, year, sector) ==
    \E r \in Stored(terms) : r.id = termId /\ r.year = year /\ r.sector = sector

\* C20: an update that carries the term's own (year, sector) is not
\* answered with DUPLICATE_TERM at either of its steps, and an update that
\* carries the (year, sector) of a different stored term is answered with
\* DUPLICATE_TERM and changes no term.
C20_UpdateDuplicateOnlyForOtherTerm ==
    /\ [][\A p \in Procs, t \in TermIds, y \in Years, s \in Sectors :
            (updateTerm_check(p, t, y, s, FALSE, <<>>) /\ HoldsKey(t, y, s))
            => pc'[p] = "ut_update"]_vars
    /\ [][\A p \in Procs :
            (/\ updateTerm_update(p)
             /\ HoldsKey(loc[p].termId, loc[p].year, loc[p].sector))
            => done'.code # "DUPLICATE_TERM"]_vars
    /\ [][\A p \in Procs, t \in TermIds, y \in Years, s \in Sectors :
            (/\ updateTerm_check(p, t, y, s, FALSE, <<>>)
             /\ \E r \in Stored(terms) : r.id = t
             /\ \E d \in TermIds \ {t} : HoldsKey(d, y, s))
            => (done'.code = "DUPLICATE_TERM" /\ pc'[p] = "idle" /\ terms' = terms)]_vars

\* An update of one of two stored terms to the key of the other was
\* answered with DUPLICATE_TERM.
C20_Witness ==
    /\ done.op = "updateTerm" /\ done.code = "DUPLICATE_TERM" /\ done.at = "ut_check"
    /\ \E r \in Stored(terms) : r.id = done.termId
    /\ \E d \in Stored(terms) :
          d.id # done.termId /\ d.year = done.year /\ d.sector = done.sector
    /\ pc = Idle

----------------------------------------------------------------------------
(* Term validation (termValidation.js) and the terms it lets through.     *)
(* A date is a day number; BadDate is a string the format check refuses.  *)
(* The request body of request 1 is loc[1].                               *)

DateFields == <<"term_start_date", "term_end_date", "midterm_start_date",
                "midterm_end_date", "final_start_date", "final_end_date">>

TermInputs ==
    [academic_year : {2568, 1999}, academic_sector : {1, 4},
     term_start_date : {BadDate, 1, 2}, term_end_date : {MaxDay - 1, MaxDay},
     midterm_start_date : 0..MaxDay, midterm_end_date : 0..MaxDay,
     final_start_date : 0..MaxDay, final_end_date : 0..MaxDay]

\* The validators return "ok" or the message of the ValidationError thrown.
validateAcademicYear(year) ==
    IF year < 2000 \/ year > 3000
    THEN "Academic year must be between 2000 and 3000" ELSE "ok"

validateAcademicSector(sector) ==
    IF sector \notin {1, 2, 3} THEN "Academic sector must be 1, 2, or 3" ELSE "ok"

validateDateFormat(dateString, fieldName) ==
    IF dateString = BadDate THEN "format " \o fieldName ELSE "ok"

validateDateRange(startDate, endDate, rangeLabel) ==
    IF endDate <= startDate
    THEN rangeLabel \o ": End date must be after start date" ELSE "ok"

validateDateWithinRange(date, rangeStart, rangeEnd, label) ==
    IF date < rangeStart \/ date > rangeEnd
    THEN label \o " must be within term dates" ELSE "ok"

validateNoDateOverlap(r1Start, r1End, r2Start, r2End) ==
    IF r1Start <= r2End /\ r2Start <= r1End
    THEN "Midterm and Final exam dates cannot overlap" ELSE "ok"

\* A try block with two checks: the first throw ends the block.
FirstThrown(a, b) == IF a # "ok" THEN a ELSE b

Thrown(results) == SelectSeq(results, LAMBDA m : m # "ok")

\* validateTermData: the errors array it throws with (<<>> = returns true).
validateTermData(t) ==
    LET basic == Thrown(<<validateAcademicYear(t.academic_year),
                          validateAcademicSector(t.academic_sector)>>
                        \o [i \in 1..6 |-> validateDateFormat(t[DateFields[i]],
                                                              DateFields[i])])
    IN  IF basic # <<>> THEN basic
        ELSE Thrown(<<
          validateDateRange(t.term_start_date, t.term_end_date, "Term dates"),
          validateDateRange(t.midterm_start_date, t.midterm_end_date, "Midterm dates"),
          validateDateRange(t.final_start_date, t.final_end_date, "Final exam dates"),
          FirstThrown(validateDateWithinRange(t.midterm_start_date, t.term_start_date,
                                              t.term_end_date, "Midterm start date"),
                      validateDateWithinRange(t.midterm_end_date, t.term_start_date,
                                              t.term_end_date, "Midterm end date")),
          FirstThrown(validateDateWithinRange(t.final_start_date, t.term_start_date,
                                              t.term_end_date, "Final exam start date"),
                      validateDateWithinRange(t.final_end_date, t.term_start_date,
                                              t.term_end_date, "Final exam end date")),
          validateNoDateOverlap(t.midterm_start_date, t.midterm_end_date,
                                t.final_start_date, t.final_end_date)>>)

\* normalizeTermData: "ok" or the message of the single error it throws.
normalizeTermData(t) ==
    FirstThrown(validateAcademicYear(t.academic_year),
                validateAcademicSector(t.academic_sector))

\* What the controller answers for a term request: the code, and for a
\* ValidationError its message and details.
TermAnswer(op, code, message, details) ==
    [op |-> op, code |-> code, message |-> message, details |-> details]

\* Steps 1-2 of createTerm and step 2 of updateTerm.
Validated(op, t) ==
    IF normalizeTermData(t) # "ok"
    THEN TermAnswer(op, "VALIDATION_ERROR", normalizeTermData(t), <<>>)
    ELSE IF validateTermData(t) # <<>>
    THEN TermAnswer(op, "VALIDATION_ERROR", "Validation failed", validateTermData(t))
    ELSE TermAnswer(op, "OK", "", <<>>)

TermRow(id, t) ==
    [id |-> id, year |-> t.academic_year, sector |-> t.academic_sector,
     term_start_date |-> t.term_start_date, term_end_date |-> t.term_end_date,
     midterm_start_date |-> t.midterm_start_date,
     midterm_end_date |-> t.midterm_end_date,
     final_start_date |-> t.final_start_date,
     final_end_date |-> t.final_end_date, xmin |-> 0, xmax |-> 0]

\* createTerm without subject_ids, requests served one at a time.
createTerm(termData) ==
    LET v == Validated("createTerm", termData)
        answer == IF v.code # "OK" THEN v
                  ELSE IF findTermByYearAndSector(NoTx, termData.academic_year,
                                                  termData.academic_sector) # {}
                  THEN TermAnswer("createTerm", "DUPLICATE_TERM", "", <<>>)
                  ELSE v
    IN  /\ seqs.terms < MaxTerms
        /\ last' = answer
        /\ IF answer.code = "OK"
           THEN /\ terms' = terms \cup {TermRow(seqs.terms + 1, termData)}
                /\ seqs' = [seqs EXCEPT !.terms = @ + 1]
           ELSE UNCHANGED <<terms, seqs>>
        /\ UNCHANGED <<tsubs, profs, lects, pc, loc, inTx, done, works>>

\* updateTerm without subject_ids, requests served one at a time.
updateTerm(termId, termData) ==
    LET existing == findTermById(NoTx, termId)
        v == Validated("updateTerm", termData)
        changed == \E e \in existing : \/ termData.academic_year # e.year
                                       \/ termData.academic_sector # e.sector
        duplicate == findTermByYearAndSector(NoTx, termData.academic_year,
                                             termData.academic_sector)
        answer == IF existing = {}
                  THEN TermAnswer("updateTerm", "TERM_NOT_FOUND", "", <<>>)
                  ELSE IF v.code # "OK" THEN v
                  ELSE IF changed /\ \E d \in duplicate : d.id # termId
                  THEN TermAnswer("updateTerm", "DUPLICATE_TERM", "", <<>>)
                  ELSE v
    IN  /\ last' = answer
        /\ terms' = IF answer.code = "OK"
                    THEN (terms \ existing) \cup {TermRow(termId, termData)}
                    ELSE terms
        /\ UNCHANGED <<tsubs, profs, lects, seqs, pc, loc, inTx, done, works>>

\* A stored term 2568/2 and one request body.
InitTermDates ==
    /\ terms = {TermRow(1, [academic_year |-> 2568, academic_sector |-> 2,
                            term_start_date |-> 1, term_end_date |-> MaxDay,
                            midterm_start_date |-> 1, midterm_end_date |-> 2,
                            final_start_date |-> MaxDay - 1,
                            final_end_date |-> MaxDay])}
    /\ tsubs = {} /\ profs = {} /\ lects = {} /\ works = {}
    /\ seqs = [terms |-> 1, tsubs |-> 0, lects |-> 0]
    /\ pc = Idle
    /\ \E t \in TermInputs : loc = [p \in Procs |-> t]
    /\ inTx = [p \in Procs |-> FALSE]
    /\ done = NoRequest
    /\ last = NoCall

NextTermDates ==
    \/ createTerm(loc[1])
    \/ \E t \in TermIds : updateTerm(t, loc[1])

SpecTermDates == InitTermDates /\ [][NextTermDates]_vars

\* The rules of a term input and whether the input violates them; a rule
\* over dates is violated when its dates are well-formed and out of order.
WellFormed(t, fields) == \A f \in fields : t[f] # BadDate

RuleMessages(t) ==
    {validateAcademicYear(t.academic_year), validateAcademicSector(t.academic_sector)}
    \cup {validateDateFormat(t[DateFields[i]], DateFields[i]) : i \in 1..6}
    \cup (IF WellFormed(t, {"midterm_start_date", "midterm_end_date"})
          THEN {validateDateRange(t.midterm_start_date, t.midterm_end_date,
                                  "Midterm dates")} ELSE {})
    \cup (IF WellFormed(t, {"midterm_start_date", "midterm_end_date",
                            "final_start_date", "final_end_date"})
          THEN {validateNoDateOverlap(t.midterm_start_date, t.midterm_end_date,
                                      t.final_start_date, t.final_end_date)}
          ELSE {})

ViolatedRules(t) == RuleMessages(t) \ {"ok"}

Reported(answer) == {answer.message} \cup Range(answer.details)

\* C21: a term request that is refused with a ValidationError reports
\* every rule the input violates: year, sector, each date's format, the
\* order of the midterm dates and the overlap of the exam windows.
C21_AllViolationsReported ==
    (last.op \in {"createTerm", "updateTerm"} /\ last.code = "VALIDATION_ERROR")
    => ViolatedRules(loc[1]) \subseteq Reported(last)

\* The clauses of a consistent term, each with the messages that name it;
\* a clause is violated when its dates are well-formed and break it.
WindowInside(t, ws, we) ==
    /\ t.term_start_date <= t[ws] /\ t[ws] <= t.term_end_date
    /\ t.term_start_date <= t[we] /\ t[we] <= t.term_end_date

Clauses(t) ==
    {[fields |-> {"midterm_start_date", "midterm_end_date"},
      holds |-> t.midterm_start_date <= t.midterm_end_date,
      names |-> {"Midterm dates: End date must be after start date"}],
     [fields |-> {"final_start_date", "final_end_date"},
      holds |-> t.final_start_date <= t.final_end_date,
      names |-> {"Final exam dates: End date must be after start date"}],
     [fields |-> {"term_start_date", "term_end_date", "midterm_start_date",
                  "midterm_end_date"},
      holds |-> WindowInside(t, "midterm_start_date", "midterm_end_date"),
      names |-> {"Midterm start date must be within term dates",
                 "Midterm end date must be within term dates"}],
     [fields |-> {"term_start_date", "term_end_date", "final_start_date",
                  "final_end_date"},
      holds |-> WindowInside(t, "final_start_date", "final_end_date"),
      names |-> {"Final exam start date must be within term dates",
                 "Final exam end date must be within term dates"}],
     [fields |-> {"midterm_start_date", "midterm_end_date", "final_start_date",
                  "final_end_date"},
      holds |-> \/ t.midterm_end_date < t.final_start_date
                \/ t.final_end_date < t.midterm_start_date,
      names |-> {"Midterm and Final exam dates cannot overlap"}]}

ViolatedClauses(t) == {c \in Clauses(t) : WellFormed(t, c.fields) /\ ~c.holds}

\* C22: every stored term satisfies all the clauses; a create, or an update
\* of an existing term, whose input violates a clause is answered with a
\* ValidationError that names the clause, and the step stores nothing.
C22_StoredTermsConsistent ==
    /\ [](\A r \in Stored(terms) :
             WellFormed(r, Range(DateFields)) /\ ViolatedClauses(r) = {})
    /\ []((last.op \in {"createTerm", "updateTerm"} /\ last.code # "TERM_NOT_FOUND")
          => \A c \in ViolatedClauses(loc[1]) :
                /\ last.code = "VALIDATION_ERROR"
                /\ c.names \cap Reported(last) # {})
    /\ [][(ViolatedClauses(loc[1]) # {}
           /\ (createTerm(loc[1]) \/ \E t \in TermIds : updateTerm(t, loc[1])))
          => terms' = terms]_vars

----------------------------------------------------------------------------
(* Work items: create, partial update, delete *)

WorkDays == {1, 2, 3}
HoursInputs == {0, 3, 169}
PatchFields == {"start_date", "end_date", "hours_per_week"}

\* An update patch carries any subset of the fields.
WorkPatches ==
    {patch \in UNION {[F -> WorkDays \cup HoursInputs] : F \in SUBSET PatchFields} :
        /\ \A f \in DOMAIN patch \cap {"start_date", "end_date"} : patch[f] \in WorkDays
        /\ \A f \in DOMAIN patch \cap {"hours_per_week"} : patch[f] \in HoursInputs}

\* validateUpdateWorkInput on well-formed fields: the dates are compared
\* only when the patch carries both, the hours only when it carries them.
validateUpdateWorkInput(data) ==
    /\ ({"start_date", "end_date"} \subseteq DOMAIN data
          => ~(data["end_date"] < data["start_date"]))
    /\ ("hours_per_week" \in DOMAIN data
          => (data["hours_per_week"] > 0 /\ data["hours_per_week"] <= 168))

\* workRepository.updateWork: SET of the fields the patch carries.
PatchedWork(w, updateData) ==
    [w EXCEPT !.start = IF "start_date" \in DOMAIN updateData
                        THEN updateData["start_date"] ELSE @,
              !.end = IF "end_date" \in DOMAIN updateData
                      THEN updateData["end_date"] ELSE @,
              !.hours = IF "hours_per_week" \in DOMAIN updateData
                        THEN updateData["hours_per_week"] ELSE @]

\* updateWork: validation, existence check, BEGIN, UPDATE, COMMIT.
updateWork(workId, updateData) ==
    LET found == {w \in Visible(NoTx, works) : w.id = workId}
        code == IF ~validateUpdateWorkInput(updateData) THEN "VALIDATION_ERROR"
                ELSE IF found = {} THEN "WORKLOAD_NOT_FOUND"
                ELSE "OK"
    IN  /\ works' = IF code = "OK"
                    THEN (works \ found) \cup {PatchedWork(w, updateData) : w \in found}
                    ELSE works
        /\ last' = [op |-> "updateWork", ts |-> 0, code |-> code]
        /\ UNCHANGED <<terms, tsubs, profs, lects, seqs, pc, loc, inTx, done>>

NextWorkItems ==
    \/ \E t \in TsIds, s \in WorkDays, e \in WorkDays, h \in HoursInputs :
          createWork(t, s, e, h)
    \/ \E i \in 1..MaxWorks, patch \in WorkPatches : updateWork(i, patch)
    \/ \E i \in 1..MaxWorks : deleteWork(i)

SpecWorkItems == InitWorkload /\ [][NextWorkItems]_vars

\* C23: every stored work item has end_date >= start_date and
\* 1 <= hours_per_week <= 168, after any sequence of creates and updates.
C23_WorkItemsWellFormed ==
    \A w \in Stored(works) : w.end >= w.start /\ 1 <= w.hours /\ w.hours <= 168

----------------------------------------------------------------------------
(* createWork step by step, with term subjects removed concurrently *)

\* The catch block of the work service: business and validation errors
\* pass, anything else becomes BusinessError INTERNAL_SERVER_ERROR.
work_catch(error) ==
    IF error \in {"VALIDATION_ERROR", "TERM_SUBJECT_NOT_FOUND", "WORKLOAD_NOT_FOUND"}
    THEN error ELSE "INTERNAL_SERVER_ERROR"

\* Work controller: the code handleError answers with.
work_handleError(error) ==
    IF error \in {"VALIDATION_ERROR", "TERM_SUBJECT_NOT_FOUND", "WORKLOAD_NOT_FOUND",
                  "INTERNAL_SERVER_ERROR"}
    THEN error ELSE "INTERNAL_SERVER_ERROR"

WorkLocals(termSubjectId, startDate, endDate, hours) ==
    [op |-> "createWork", ts |-> termSubjectId, start |-> startDate,
     end |-> endDate, hours |-> hours]

AnswerWork(p, l, code, at) ==
    /\ done' = [op |-> l.op, ts |-> l.ts, code |-> code, at |-> at]
    /\ pc' = [pc EXCEPT ![p] = "idle"]
    /\ loc' = [loc EXCEPT ![p] = Released]
    /\ inTx' = [inTx EXCEPT ![p] = FALSE]

\* createWork up to BEGIN: validation and the existence check.
createWork_check(p, termSubjectId, startDate, endDate, hours) ==
    /\ pc[p] = "idle"
    /\ Cardinality(works) + Cardinality({q \in Procs : pc[q] = "cw_insert"}) < MaxWorks
    /\ LET l == WorkLocals(termSubjectId, startDate, endDate, hours)
           code == IF ~validateCreateWorkInput(startDate, endDate, hours)
                   THEN "VALIDATION_ERROR"
                   ELSE IF findTermSubjectById(p, termSubjectId) = {}
                   THEN "TERM_SUBJECT_NOT_FOUND"
                   ELSE "OK"
       IN  IF code # "OK"
           THEN AnswerWork(p, l, work_handleError(work_catch(code)), "cw_check")
           ELSE /\ pc' = [pc EXCEPT ![p] = "cw_insert"]
                /\ loc' = [loc EXCEPT ![p] = l]
                /\ UNCHANGED <<inTx, done>>
    /\ UNCHANGED <<terms, tsubs, profs, lects, seqs, last, works>>

\* BEGIN, insertWork, COMMIT.  The foreign key of work_details raises 23503
\* when the term subject row is gone.
createWork_insert(p) ==
    /\ pc[p] = "cw_insert"
    /\ LET l == loc[p]
           out == IF \E r \in Settled(tsubs) : r.id = l.ts THEN "ok" ELSE "23503"
           id == CHOOSE i \in FreshIds({w.id : w \in works}, 1) : TRUE
       IN  /\ ~\E r \in tsubs : r.id = l.ts /\ (r.xmin # 0 \/ r.xmax # 0)
           /\ IF out = "ok"
              THEN /\ works' = works \cup {[id |-> id, ts |-> l.ts, start |-> l.start,
                                           end |-> l.end, hours |-> l.hours,
                                           xmin |-> 0, xmax |-> 0]}
                   /\ AnswerWork(p, l, "OK", "cw_insert")
              ELSE /\ works' = works
                   /\ AnswerWork(p, l, work_handleError(work_catch(out)), "cw_insert")
    /\ UNCHANGED <<terms, tsubs, profs, lects, seqs, last>>

NextCreateWork ==
    \/ \E p \in Procs, t \in TsIds, e \in {1, 3} : createWork_check(p, t, 2, e, 3)
    \/ \E p \in Procs : createWork_insert(p)
    \/ \E p \in Procs, i \in TsIds : removeSubjectFromTerm(p, i)
    \/ \E p \in Procs, sj \in SubjectIds : addSubjectToTerm_check(p, 1, sj)
    \/ \E p \in Procs : addSubjectToTerm_insert(p)

SpecCreateWork == InitWorkload /\ [][NextCreateWork]_vars

\* C24: when the term subject was deleted between the existence check of
\* createWork and its insert, createWork answers TERM_SUBJECT_NOT_FOUND and
\* stores no work item.
C24_RaceMappedToBusinessCode ==
    [][\A p \in Procs :
        (createWork_insert(p) /\ ~\E r \in Stored(tsubs) : r.id = loc[p].ts)
        => (done'.code = "TERM_SUBJECT_NOT_FOUND" /\ works' = works)]_vars

----------------------------------------------------------------------------
(* Active-term resolution (dashboard repository) *)

\* ORDER BY academic_year DESC, academic_sector DESC LIMIT 1.
Latest(rows) ==
    {r \in rows : \A o \in rows :
        o.year < r.year \/ (o.year = r.year /\ o.sector <= r.sector)}

\* Variant: the date window is tried before the is_active flag.
getActiveTerm_DateFirst(rows, today) ==
    LET active == {r \in rows : r.is_active}
        current == {r \in rows : r.term_start_date <= today /\ today <= r.term_end_date}
    IN  IF current # {} THEN Latest(current)
        ELSE IF active # {} THEN Latest(active)
        ELSE Latest(rows)

\* getActiveTerm: the row it returns as a set, {} for null.
getActiveTerm(rows, today) ==
    LET active == {r \in rows : r.is_active}
        current == {r \in rows : r.term_start_date <= today /\ today <= r.term_end_date}
    IN  IF active # {} THEN Latest(active)
        ELSE IF current # {} THEN Latest(current)
        ELSE Latest(rows)

\* The keys a stored term may have, in the order of their ids.
ActiveTermKeys == <<[year |-> 2567, sector |-> 2], [year |-> 2568, sector |-> 1],
                    [year |-> 2568, sector |-> 2]>>

\* Any set of terms with distinct keys, each flagged or not and with one
\* of two date windows; loc holds the current date of the request.
InitActiveTerm ==
    /\ \E present \in SUBSET (1..3), flags \in [1..3 -> BOOLEAN],
          starts \in [1..3 -> {1, 3}] :
          terms = {[id |-> i, year |-> ActiveTermKeys[i].year,
                    sector |-> ActiveTermKeys[i].sector, is_active |-> flags[i],
                    term_start_date |-> starts[i], term_end_date |-> starts[i] + 1,
                    xmin |-> 0, xmax |-> 0] : i \in present}
    /\ \E today \in {2, 3, 5} : loc = [p \in Procs |-> [today |-> today]]
    /\ tsubs = {} /\ profs = {} /\ lects = {} /\ works = {}
    /\ seqs = [terms |-> 3, tsubs |-> 0, lects |-> 0]
    /\ pc = Idle
    /\ inTx = [p \in Procs |-> FALSE]
    /\ done = NoRequest
    /\ last = NoCall

\* A caller resolves the active term.
resolveActiveTerm ==
    /\ last' = [op |-> "getActiveTerm",
                result |-> getActiveTerm(Stored(terms), loc[1].today)]
    /\ UNCHANGED <<terms, tsubs, profs, lects, seqs, pc, loc, inTx, done, works>>

NextActiveTerm == resolveActiveTerm

SpecActiveTerm == InitActiveTerm /\ [][NextActiveTerm]_vars

FlaggedTerms == {r \in Stored(terms) : r.is_active}

TermsOfToday ==
    {r \in Stored(terms) :
        r.term_start_date <= loc[1].today /\ loc[1].today <= r.term_end_date}

----------------------------------------------------------------------------
(* Role-scoped views of the term subjects *)

ACADEMIC_OFFICER == "Academic Officer"
PROGRAM_CHAIR == "Program Chair"
PROFESSOR == "Professor"
STUDENT == "Student"

\* req.user of the callers: an id and the roles the token carries.
Callers ==
    [id : UserIds,
     roles : {{ACADEMIC_OFFICER}, {PROGRAM_CHAIR, PROFESSOR}, {PROFESSOR}, {STUDENT}, {}}]

findTermSubjectsWithStatus(termId) ==
    {r.id : r \in findTermSubjectsByTermId(NoTx, termId)}

findTermSubjectsByProfessor(termId, userId) ==
    {r.id : r \in {x \in findTermSubjectsByTermId(NoTx, termId) :
                      \E a \in Visible(NoTx, profs) : a.ts = x.id /\ a.user = userId}}

findActiveTermSubjectsWithStatus(termId, userId, isProfessor) ==
    IF isProfessor THEN findTermSubjectsByProfessor(termId, userId)
    ELSE findTermSubjectsWithStatus(termId)

\* termRepo.findCurrentTerm: the terms of this specification carry no flag
\* and no date window, which leaves the last tier of the resolution.
findCurrentTerm == Latest(Stored(terms))

View(op, user, code, result) ==
    [op |-> op, ts |-> 0, user |-> user.id, roles |-> user.roles, code |-> code,
     result |-> result]

getTermSubjectsStatus(termId, user) ==
    LET isAcademicStaff == ACADEMIC_OFFICER \in user.roles \/ PROGRAM_CHAIR \in user.roles
    IN  /\ last' = IF findTermById(NoTx, termId) = {}
                   THEN View("getTermSubjectsStatus", user, "TERM_NOT_FOUND", {})
                   ELSE View("getTermSubjectsStatus", user, "OK",
                             IF isAcademicStaff THEN findTermSubjectsWithStatus(termId)
                             ELSE findTermSubjectsByProfessor(termId, user.id))
        /\ UNCHANGED <<terms, tsubs, profs, lects, seqs, pc, loc, inTx, done, works>>

getActiveTermSubjectsStatus(user) ==
    LET isProfessor == /\ PROFESSOR \in user.roles
                       /\ ACADEMIC_OFFICER \notin user.roles
                       /\ PROGRAM_CHAIR \notin user.roles
    IN  /\ last' = IF findCurrentTerm = {}
                   THEN View("getActiveTermSubjectsStatus", user, "NO_TERM_FOUND", {})
                   ELSE View("getActiveTermSubjectsStatus", user, "OK",
                             UNION {findActiveTermSubjectsWithStatus(t.id, user.id,
                                                                     isProfessor)
                                    : t \in findCurrentTerm})
        /\ UNCHANGED <<terms, tsubs, profs, lects, seqs, pc, loc, inTx, done, works>>

getTermSubjectDetail(termSubjectId, user) ==
    LET isAcademicStaff == ACADEMIC_OFFICER \in user.roles \/ PROGRAM_CHAIR \in user.roles
        isProfessorOfSubject ==
            \E a \in findProfessorsByTermSubject(NoTx, termSubjectId) : a.user = user.id
    IN  /\ last' = IF findTermSubjectById(NoTx, termSubjectId) = {}
                   THEN View("getTermSubjectDetail", user, "TERM_SUBJECT_NOT_FOUND", {})
                   ELSE IF ~isAcademicStaff /\ ~isProfessorOfSubject
                   THEN View("getTermSubjectDetail", user, "PERMISSION_DENIED", {})
                   ELSE View("getTermSubjectDetail", user, "OK", {termSubjectId})
        /\ UNCHANGED <<terms, tsubs, profs, lects, seqs, pc, loc, inTx, done, works>>

NextViews ==
    \/ \E t \in TsIds, u \in UserIds : assignProfessorToSubject(t, u)
    \/ \E t \in TsIds, u \in UserIds : removeProfessor(t, u)
    \/ \E t \in 1..2, user \in Callers : getTermSubjectsStatus(t, user)
    \/ \E user \in Callers : getActiveTermSubjectsStatus(user)
    \/ \E t \in TsIds, user \in Callers : getTermSubjectDetail(t, user)

SpecViews == InitWorkload /\ [][NextViews]_vars

\* C26: a caller without the Academic Officer and the Program Chair role
\* gets from the per-term status listing, the active-term listing and the
\* detail view only term subjects the caller is assigned to as professor.
C26_InstructorScopedViews ==
    (/\ last.op \in {"getTermSubjectsStatus", "getActiveTermSubjectsStatus",
                     "getTermSubjectDetail"}
     /\ last.roles \cap {ACADEMIC_OFFICER, PROGRAM_CHAIR} = {})
    => \A id \in last.result : IsAssigned(id, last.user)

----------------------------------------------------------------------------
(* Workload handlers, one round trip at a time.  Every handler reads the
   term subject (submitWorkload also the professors) before BEGIN and tests
   workload_approved on that read; the UPDATE of updateWorkloadStatus names
   the row by id alone. *)

WorkloadLocals(op, termSubjectId, userId, status) ==
    [op |-> op, ts |-> termSubjectId, user |-> userId, status |-> status]

\* Record of a completed workload request; "pre" is the state the row was
\* in when the request's UPDATE ran ("none" when it answered before BEGIN).
AnswerWorkload(p, l, code, pre) ==
    /\ done' = [op |-> l.op, ts |-> l.ts, user |-> l.user, code |-> code, pre |-> pre]
    /\ pc' = [pc EXCEPT ![p] = "idle"]
    /\ loc' = [loc EXCEPT ![p] = Released]
    /\ inTx' = [inTx EXCEPT ![p] = FALSE]

workload_check(p, l, code) ==
    /\ pc[p] = "idle"
    /\ IF code # "OK"
       THEN AnswerWorkload(p, l, code, "none")
       ELSE /\ pc' = [pc EXCEPT ![p] = "wl_update"]
            /\ loc' = [loc EXCEPT ![p] = l]
            /\ UNCHANGED <<inTx, done>>
    /\ UNCHANGED <<terms, tsubs, profs, lects, seqs, last, works>>

submitWorkload_check(p, termSubjectId, userId) ==
    workload_check(p, WorkloadLocals("submit", termSubjectId, userId, SUBMITTED),
                   submitOutcome(termSubjectId, userId))

approveWorkload_check(p, termSubjectId, userId) ==
    workload_check(p, WorkloadLocals("approve", termSubjectId, userId, APPROVED),
                   approveOutcome(termSubjectId))

rejectWorkload_check(p, termSubjectId, userId) ==
    workload_check(p, WorkloadLocals("reject", termSubjectId, userId, PENDING),
                   rejectOutcome(termSubjectId))

\* Variant: the UPDATE also names the state the handler had read.
workload_update_Guarded(p) ==
    /\ pc[p] = "wl_update"
    /\ LET l == loc[p]
           from == IF l.op = "submit" THEN PENDING ELSE SUBMITTED
       IN  /\ tsubs' = IF StateOf(l.ts) = from
                       THEN updateWorkloadStatus(tsubs, l.ts, l.status)
                       ELSE tsubs
           /\ AnswerWorkload(p, l, IF StateOf(l.ts) = from THEN "OK" ELSE "CONFLICT",
                             StateOf(l.ts))
    /\ UNCHANGED <<terms, profs, lects, seqs, last, works>>

\* BEGIN, updateWorkloadStatus, COMMIT.
workload_update(p) ==
    /\ pc[p] = "wl_update"
    /\ LET l == loc[p]
       IN  /\ tsubs' = updateWorkloadStatus(tsubs, l.ts, l.status)
           /\ AnswerWorkload(p, l, "OK", StateOf(l.ts))
    /\ UNCHANGED <<terms, profs, lects, seqs, last, works>>

NextWorkloadRace ==
    \/ \E p \in Procs, t \in TsIds, u \in UserIds : submitWorkload_check(p, t, u)
    \/ \E p \in Procs, t \in TsIds, u \in UserIds : approveWorkload_check(p, t, u)
    \/ \E p \in Procs, t \in TsIds, u \in UserIds : rejectWorkload_check(p, t, u)
    \/ \E p \in Procs : workload_update(p)

SpecWorkloadRace == InitScoped /\ [][NextWorkloadRace]_vars

\* C27: concurrent submit, approve and reject calls on one term subject have
\* the outcome of a one-at-a-time order: a call that reports success wrote
\* to a row that was in the state the call is allowed from (submit from
\* pending, approve and reject from submitted), so an approve and a reject
\* racing on a submitted workload, or two submits racing on a pending one,
\* do not both report success.
C27_OutcomeOfSomeOrder ==
    (done.op \in {"submit", "approve", "reject"} /\ done.code = "OK")
    => done.pre = (IF done.op = "submit" THEN PENDING ELSE SUBMITTED)

----------------------------------------------------------------------------
(* The generic term subject update.  Of the seven optional columns of the
   patch the model keeps workload_approved; "absent" stands for a patch
   without that field. *)

StatusPatches == [workload_approved : {"absent", PENDING, SUBMITTED, APPROVED}]

\* Variant: the repository leaves workload_approved to the workload handlers.
repo_updateTermSubject_NoApproval(rows, termSubjectId, updateData) ==
    rows

\* Repository: SET only the columns the patch defines, WHERE id = $n.
repo_updateTermSubject(rows, termSubjectId, updateData) ==
    {IF r.id = termSubjectId /\ updateData.workload_approved # "absent"
     THEN [r EXCEPT !.wa = updateData.workload_approved]
     ELSE r : r \in rows}

\* Service: existence check, BEGIN, repository update, COMMIT.
updateTermSubject(termSubjectId, data) ==
    LET found == findTermSubjectById(NoTx, termSubjectId)
        rows == IF found = {} THEN tsubs
                ELSE repo_updateTermSubject(tsubs, termSubjectId, data)
        post == {r.wa : r \in {x \in rows : x.id = termSubjectId}}
    IN  /\ tsubs' = rows
        /\ last' = [op |-> "updateTermSubject", ts |-> termSubjectId,
                    code |-> IF found = {} THEN "TERM_SUBJECT_NOT_FOUND" ELSE "OK",
                    pre |-> StateOf(termSubjectId),
                    post |-> IF post = {} THEN "none" ELSE CHOOSE w \in post : TRUE,
                    patch |-> data]
        /\ UNCHANGED <<terms, profs, lects, seqs, pc, loc, inTx, done, works>>

\* The steps the workload handlers take: submit, approve, reject.
AllowedSteps ==
    {<<PENDING, SUBMITTED>>, <<SUBMITTED, APPROVED>>, <<SUBMITTED, PENDING>>}

NextUpdateStatus ==
    \/ \E t \in TsIds, d \in StatusPatches : updateTermSubject(t, d)
    \/ \E t \in TsIds : assignProfessorToSubject(t, 1)
    \/ \E t \in TsIds : submitWorkload(t, 1)
    \/ \E t \in TsIds : approveWorkload(t, 1)
    \/ \E t \in TsIds : rejectWorkload(t, 1)

SpecUpdateStatus == InitWorkload /\ [][NextUpdateStatus]_vars

\* C28: the generic term subject update does not move the workload approval
\* state along a step the approval state machine forbids: after a successful
\* update the state is the one before it or one allowed step away from it.
C28_UpdateKeepsStateMachine ==
    (last.op = "updateTermSubject" /\ last.code = "OK")
    => (last.post = last.pre \/ <<last.pre, last.post>> \in AllowedSteps)

----------------------------------------------------------------------------
(* Two replaceAll requests on one term *)

RaceLists == {<<>>, <<1>>, <<2>>}

\* Term 1 with subject 1 attached.
InitReplaceRace ==
    /\ terms = {[id |-> 1, year |-> 2568, sector |-> 1, xmin |-> 0, xmax |-> 0]}
    /\ tsubs = {[id |-> 1, term |-> 1, subject |-> 1, wa |-> PENDING,
                 xmin |-> 0, xmax |-> 0]}
    /\ profs = {} /\ lects = {}
    /\ seqs = [terms |-> 1, tsubs |-> 1, lects |-> 0]
    /\ pc = Idle /\ loc = NoLocals
    /\ inTx = [p \in Procs |-> FALSE]
    /\ done = NoRequest
    /\ last = NoCall
    /\ works = {}

NextReplaceRace ==
    \/ \E p \in Procs, l \in RaceLists : updateTermSubjects_check(p, 1, l)
    \/ \E p \in Procs : replace_delete(p)
    \/ \E p \in Procs : replace_resume(p)
    \/ \E p \in Procs, f \in BOOLEAN : replace_bulk(p, f)

SpecReplaceRace == InitReplaceRace /\ [][NextReplaceRace]_vars

\* C29: concurrent replaceAll calls on one term leave the term, once both
\* have ended, with exactly the subjects of one of the lists attached and
\* never with a mixture of two lists, and no call is answered with the
\* duplicate-key failure of the store.
C29_ReplaceRaceLeavesOneList ==
    /\ pc = Idle => \E l \in RaceLists : SubjectsOf(tsubs, 1) = Range(l)
    /\ done.code # handleError("23505")

----------------------------------------------------------------------------
(* Weekly totals and student-year levels *)

\* The hours of the term's work items that overlap a week, each item once.
RECURSIVE HoursOnce(_, _, _)
HoursOnce(rows, week, termId) ==
    IF rows = {} THEN 0
    ELSE LET w == CHOOSE x \in rows : TRUE
         IN  (IF InWeek(w, week, termStartDate(termId))
                 /\ \E r \in Visible(NoTx, tsubs) : r.id = w.ts /\ r.term = termId
              THEN w.hours ELSE 0)
             + HoursOnce(rows \ {w}, week, termId)

\* C30: in the weekly aggregation a work item adds its hours_per_week to a
\* week's total at most once, also when its subject belongs to several of
\* the selected student-year levels: no weekly total exceeds the hours of
\* the term's work items overlapping that week, each counted once.
C30_ItemCountedAtMostOnce ==
    (last.op = "chart" /\ last.code = "OK")
    => \A k \in Weeks :
          last.totals[k] <= HoursOnce(Visible(NoTx, works), k, last.term)

====
